---- MODULE Spec2Model ----
(***************************************************************************)
(* A model of the Redis-like server of src/unnamed/part_000: the typed     *)
(* store (sync.Map of *Entry), its command handlers, the clock read by     *)
(* isExpired, and one worker per connection.  sync.Map's Load, Store and   *)
(* Delete are atomic; a handler is a sequence of such steps and the steps  *)
(* of different connections interleave freely.                             *)
(*                                                                         *)
(* Strings are sequences of one-character strings, so that ToUpper, Atoi   *)
(* and len() are computed and not assumed.  Time is in milliseconds.       *)
(***************************************************************************)
EXTENDS Integers, Sequences, FiniteSets, TLC

VARIABLES
    cache,      \* sync.Map cache: key -> the Entry stored there, or NoEntry
    heap,       \* the mutable objects entries point to: list values, maps
    now,        \* time.Now(), in milliseconds since the server started
    conn,       \* per connection: where its worker is, and its locals
    out,        \* per connection: the replies written so far, with their requests
    issued,     \* number of commands the clients have sent in all
    leaderboard, \* sync.Map leaderboard: user -> score
    sock,       \* per connection: the bytes sent and not read yet, and
                \* whether the client has closed its end
    http        \* the handler of /leaderboard: where it is, its locals, and
                \* the pages it has written

vars == <<cache, heap, now, conn, out, issued, leaderboard, sock, http>>

----------------------------------------------------------------------------
(* Bounds of the model.                                                    *)

MaxCmds == 3
\* commands sent in all when one client is alone and sends them in a row
MaxSerial == 5
\* commands sent in all, and the largest index, where LRANGE is tried with
\* every pair of indices
MaxRangeCmds == 2
MaxIdx == 4
MaxTicks == 3
TickMs == 500

Conns == {"c1", "c2"}

----------------------------------------------------------------------------
(* Strings.                                                                *)

LowerChars == <<"a","b","c","d","e","f","g","h","i","j","k","l","m",
                "n","o","p","q","r","s","t","u","v","w","x","y","z">>
UpperChars == <<"A","B","C","D","E","F","G","H","I","J","K","L","M",
                "N","O","P","Q","R","S","T","U","V","W","X","Y","Z">>
DigitChars == <<"0","1","2","3","4","5","6","7","8","9">>

IndexOf(ch, table) ==
    IF \E i \in 1..Len(table) : table[i] = ch
    THEN CHOOSE i \in 1..Len(table) : table[i] = ch
    ELSE 0

UpperChar(ch) ==
    LET i == IndexOf(ch, LowerChars) IN IF i > 0 THEN UpperChars[i] ELSE ch

\* strings.ToUpper
ToUpper(s) == [i \in 1..Len(s) |-> UpperChar(s[i])]

IsDigit(ch) == IndexOf(ch, DigitChars) > 0

\* strconv.Itoa
RECURSIVE ItoaNat(_)
ItoaNat(n) ==
    IF n < 10 THEN <<DigitChars[n + 1]>>
    ELSE ItoaNat(n \div 10) \o <<DigitChars[(n % 10) + 1]>>

Itoa(n) == IF n < 0 THEN <<"-">> \o ItoaNat(0 - n) ELSE ItoaNat(n)

\* a < b for two strings of digits and letters, as Go compares strings:
\* byte by byte, digits before capitals before small letters
ByteOrder == DigitChars \o UpperChars \o LowerChars

StringLess(a, b) ==
    \E i \in 1..(Len(b)) :
        /\ i <= Len(a) + 1
        /\ \A j \in 1..(i - 1) : a[j] = b[j]
        /\ i = Len(a) + 1 \/ IndexOf(a[i], ByteOrder) < IndexOf(b[i], ByteOrder)

----------------------------------------------------------------------------
(* Go's int and time.Duration are 64 bits wide.  An int64 is kept as its   *)
(* four 16-bit limbs in two's complement, least significant first, so that *)
(* the wrap-around of its arithmetic is computed.                          *)

Zero64 == <<0, 0, 0, 0>>

\* x * k + add in 64 bits, for 0 <= k <= 1000 and 0 <= add < 65536
MulAdd64(x, k, add) ==
    LET t1 == x[1] * k + add
        t2 == x[2] * k + t1 \div 65536
        t3 == x[3] * k + t2 \div 65536
        t4 == x[4] * k + t3 \div 65536
    IN  <<t1 % 65536, t2 % 65536, t3 % 65536, t4 % 65536>>

\* -x in 64 bits
Neg64(x) ==
    MulAdd64(<<65535 - x[1], 65535 - x[2], 65535 - x[3], 65535 - x[4]>>, 1, 1)

IsNegative(x) == x[4] >= 32768
IsPositive(x) == ~IsNegative(x) /\ x # Zero64

\* x / k for x >= 0 and 0 < k <= 1000
Div64(x, k) ==
    LET r4 == x[4] % k
        c3 == r4 * 65536 + x[3]
        c2 == (c3 % k) * 65536 + x[2]
        c1 == (c2 % k) * 65536 + x[1]
    IN  <<c1 \div k, c2 \div k, c3 \div k, x[4] \div k>>

\* An int64 as an integer of the checker, which has 31 bits: a value
\* beyond them is cut to the largest (and to the smallest) of those.
ToInt(x) ==
    IF IsNegative(x)
    THEN LET m == Neg64(x) IN
         IF m[4] = 0 /\ m[3] = 0 /\ m[2] < 32768
         THEN 0 - (m[2] * 65536 + m[1]) ELSE -2147483647
    ELSE IF x[4] = 0 /\ x[3] = 0 /\ x[2] < 32768
         THEN x[2] * 65536 + x[1] ELSE 2147483647

\* strconv.Atoi: an optional sign, then one or more decimal digits, the
\* value within the range of int (64 bits, 19 digits)
AtoiDigits(s) ==
    IF s # <<>> /\ (s[1] = "-" \/ s[1] = "+") THEN Tail(s) ELSE s

MaxInt64Digits ==
    <<"9","2","2","3","3","7","2","0","3","6","8","5","4","7","7","5","8","0","7">>
MinInt64Digits ==
    <<"9","2","2","3","3","7","2","0","3","6","8","5","4","7","7","5","8","0","8">>

\* the digits after the leading zeros
Significant(d) ==
    IF \A i \in 1..Len(d) : d[i] = "0" THEN <<>>
    ELSE SubSeq(d, CHOOSE i \in 1..Len(d) :
                      d[i] # "0" /\ \A j \in 1..(i - 1) : d[j] = "0", Len(d))

\* a <= b for two digit strings without leading zeros
DigitsLeq(a, b) ==
    \/ Len(a) < Len(b)
    \/ /\ Len(a) = Len(b)
       /\ \A i \in 1..Len(a) :
             (\A j \in 1..(i - 1) : a[j] = b[j])
                => IndexOf(a[i], DigitChars) <= IndexOf(b[i], DigitChars)

\* a faulty parse, which looks at the first character only
AtoiOkFirst(s) == s # <<>> /\ IsDigit(s[1])

AtoiOk(s) ==
    /\ AtoiDigits(s) # <<>>
    /\ \A i \in 1..Len(AtoiDigits(s)) : IsDigit(AtoiDigits(s)[i])
    /\ DigitsLeq(Significant(AtoiDigits(s)),
                 IF s[1] = "-" THEN MinInt64Digits ELSE MaxInt64Digits)

RECURSIVE Magnitude(_, _)
Magnitude(d, i) ==
    IF i = 0 THEN Zero64
    ELSE MulAdd64(Magnitude(d, i - 1), 10, IndexOf(d[i], DigitChars) - 1)

Atoi(s) ==
    LET d == Significant(AtoiDigits(s))
    IN  IF s[1] = "-" THEN Neg64(Magnitude(d, Len(d))) ELSE Magnitude(d, Len(d))

----------------------------------------------------------------------------
(* The value model.                                                        *)

StringType == "String"
ListType == "List"
SetType == "Set"
HashType == "Hash"

\* time.Duration(n) * time.Millisecond and time.Duration(n) * time.Second,
\* in nanoseconds: n * 10^6 and n * 10^9 in int64 arithmetic
TimesMillisecond(n) == MulAdd64(MulAdd64(n, 1000, 0), 1000, 0)
TimesSecond(n) == MulAdd64(TimesMillisecond(n), 1000, 0)

\* The clock and every ExpireAt are in milliseconds (the clock never shows
\* a fraction of one).  A positive Duration, in milliseconds.
DurationMs(d) == ToInt(Div64(Div64(d, 1000), 1000))

\* An *Entry.  Str holds the value of a String entry; Ref names the heap
\* object of a List entry (the Entry itself, whose Value LPOP rewrites in
\* place) or the Go map of a Set or Hash entry.  ExpireAt = 0 is the zero
\* time.Time.
Entry(type, str, ref, expireAt) ==
    [Type |-> type, Str |-> str, Ref |-> ref, ExpireAt |-> expireAt]

\* what cache.Load gives when ok is false
NoEntry == Entry("none", <<>>, 0, 0)

\* a faulty isExpired, for which nothing ever expires
isExpiredNever(e, t) == FALSE

\* Entry.isExpired at clock reading t
isExpired(e, t) ==
    IF e.ExpireAt = 0 THEN FALSE ELSE t > e.ExpireAt

----------------------------------------------------------------------------
(* Command names, and the keys the store is watched at.                    *)

GET == <<"G","E","T">>
SET == <<"S","E","T">>
DEL == <<"D","E","L">>
TTL == <<"T","T","L">>
LPUSH == <<"L","P","U","S","H">>
LPOP == <<"L","P","O","P">>
LRANGE == <<"L","R","A","N","G","E">>
SADD == <<"S","A","D","D">>
SMEMBERS == <<"S","M","E","M","B","E","R","S">>
SREM == <<"S","R","E","M">>
HSET == <<"H","S","E","T">>
HGET == <<"H","G","E","T">>
HDEL == <<"H","D","E","L">>
LBADD == <<"L","B","A","D","D">>
LBTOP == <<"L","B","T","O","P">>
QUIT == <<"Q","U","I","T">>
EX == <<"E","X">>
PX == <<"P","X">>

Keys == {<<"k">>, <<"j">>}

----------------------------------------------------------------------------
(* Heap objects.  A List entry's cell holds its Value ([]string): LPOP     *)
(* rewrites it in place.  A Set's cell is the map[string]struct{} (its key *)
(* set) and a Hash's cell the map[string]string; SADD, SREM, HSET and HDEL *)
(* change the map in place, and every Entry made for the key points to the *)
(* same map.  Cells nothing refers to are garbage and are kept blank.      *)

Refs == 1..(Cardinality(Keys) + Cardinality(Conns) + 1)

FreeCell == [list |-> <<>>, set |-> {}, hash |-> <<>>]

Live(ca, cn) ==
    {ca[k].Ref : k \in Keys} \cup {cn[c].ent.Ref : c \in Conns}
    \cup {cn[c].ref : c \in Conns}

NewRef(ca, cn) ==
    CHOOSE r \in Refs : r \notin Live(ca, cn)
                        /\ \A q \in Refs : q < r => q \in Live(ca, cn)

Sweep(h, ca, cn) ==
    [r \in Refs |-> IF r \in Live(ca, cn) THEN h[r] ELSE FreeCell]

----------------------------------------------------------------------------
(* Replies (conn.Write).  n is the number a reply carries: the integer of  *)
(* ":<n>", the length header of "$<n>", the count header of "*<n>".        *)

Reply(kind, n, s, items, msg) ==
    [kind |-> kind, n |-> n, s |-> s, items |-> items, msg |-> msg]

StatusOK == Reply("status", 0, <<>>, <<>>, "OK")
NilBulk == Reply("nil", -1, <<>>, <<>>, "")
EmptyArray == Reply("array", 0, <<>>, <<>>, "")
IntReply(n) == Reply("int", n, <<>>, <<>>, "")
BulkReply(s) == Reply("bulk", Len(s), s, <<>>, "")
ArrayReply(n, items) == Reply("array", n, <<>>, items, "")
ErrReply(msg) == Reply("error", 0, <<>>, <<>>, msg)
WrongType ==
    ErrReply("ERR WRONGTYPE Operation against a key holding the wrong kind of value")
ArityError(name) ==
    ErrReply("ERR wrong number of arguments for '" \o name \o "' command")
NotAnInteger == ErrReply("ERR value is not an integer or out of range")
ScoreNotInteger == ErrReply("ERR score must be an integer")
NotPositiveInteger == ErrReply("ERR N must be a positive integer")
\* a faulty reply, which spells the name in capitals
UnknownCommandUpper(name) ==
    Reply("error", 0, ToUpper(name), <<>>, "ERR unknown command '%s'")
\* fmt.Sprintf("-ERR unknown command '%s'", request[0])
UnknownCommand(name) == Reply("error", 0, name, <<>>, "ERR unknown command '%s'")
InvalidExpiration(opt) == ErrReply("ERR invalid " \o opt \o " expiration value")

----------------------------------------------------------------------------
(* Connections.                                                            *)

\* A worker blocked in readCommand, holding nothing.
IdleConn ==
    [pc |-> "idle", req |-> <<>>, ent |-> NoEntry, expireAt |-> 0,
     idx |-> 0, count |-> 0, list |-> <<>>, str |-> <<>>, ref |-> 0,
     data |-> <<>>, todo |-> {}]

At(c, label) == conn[c].pc = label

KeyOf(c) == conn[c].req[2]

\* The worker of c writes reply r and goes back to readCommand; h is the
\* heap as the step leaves it.  The transcript keeps, with the reply, the
\* request and the entry the command's lookup had found.
Written(c, r) ==
    /\ out' = [out EXCEPT ![c] =
                 Append(@, [req |-> conn[c].req, rep |-> r, saw |-> conn[c].ent])]
    /\ conn' = [conn EXCEPT ![c] = IdleConn]
    /\ UNCHANGED <<now, issued, sock, http>>

\* the same for a handler of the typed store, which leaves the leaderboard
Done(c, r, h) ==
    /\ Written(c, r)
    /\ heap' = Sweep(h, cache', conn')
    /\ UNCHANGED leaderboard

\* The worker of c goes on with locals l.
Step(c, l, h) ==
    /\ conn' = [conn EXCEPT ![c] = l]
    /\ heap' = Sweep(h, cache', conn')
    /\ UNCHANGED <<out, now, issued, leaderboard, sock, http>>

\* the handler of /leaderboard at rest, having written pages
Resting(pages) == [pc |-> "idle", todo |-> {}, data |-> <<>>, pages |-> pages]

IdleHttp == Resting(<<>>)

Init ==
    /\ cache = [k \in Keys |-> NoEntry]
    /\ heap = [r \in Refs |-> FreeCell]
    /\ now = 0
    /\ conn = [c \in Conns |-> IdleConn]
    /\ out = [c \in Conns |-> <<>>]
    /\ issued = 0
    /\ leaderboard = <<>>
    /\ sock = [c \in Conns |-> [buf |-> <<>>, eof |-> FALSE]]
    /\ http = IdleHttp

\* The clock moves on; nothing else changes (no background sweep).
\* a clock whose advance sweeps the entries that have expired
TickSweeps ==
    /\ now < MaxTicks * TickMs
    /\ now' = now + TickMs
    /\ cache' = [k \in Keys |->
                   IF isExpired(cache[k], now') THEN NoEntry ELSE cache[k]]
    /\ UNCHANGED <<heap, conn, out, issued, leaderboard, sock, http>>

Tick ==
    /\ now < MaxTicks * TickMs
    /\ now' = now + TickMs
    /\ UNCHANGED <<cache, heap, conn, out, issued, leaderboard, sock, http>>

\* handleConnection: the switch on the upper-cased name picks the handler.
HandlerOf(cmd) ==
    CASE cmd = GET -> "get"
      [] cmd = SET -> "set"
      [] cmd = DEL -> "del"
      [] cmd = TTL -> "ttl"
      [] cmd = LPUSH -> "lpush"
      [] cmd = LPOP -> "lpop"
      [] cmd = SADD -> "sadd"
      [] cmd = SMEMBERS -> "smembers"
      [] cmd = SREM -> "srem"
      [] cmd = HSET -> "hset"
      [] cmd = HGET -> "hget"
      [] cmd = HDEL -> "hdel"
      [] cmd = LRANGE -> "lrange"
      [] cmd = LBADD -> "lbadd"
      [] cmd = LBTOP -> "lbtop"
      [] cmd = QUIT -> "quit"
      [] OTHER -> "unknown"

\* readCommand returns request (not empty) to the worker of c; limit bounds
\* the requests sent in all.
Receive(c, request, limit) ==
    /\ At(c, "idle")
    /\ issued < limit
    /\ issued' = issued + 1
    /\ conn' = [conn EXCEPT ![c] =
                  [IdleConn EXCEPT !.pc = HandlerOf(ToUpper(request[1])),
                                   !.req = request]]
    /\ UNCHANGED <<cache, heap, now, out, leaderboard, sock, http>>

Recv(c, request) == Receive(c, request, MaxCmds)

\* the same when client c1 is the only one and sends its requests in a row
RecvSerial(request) == Receive("c1", request, MaxSerial)

\* what every lookup starts with: cache.Load(key)
Found(c) == cache[KeyOf(c)] # NoEntry
Loaded(c, label) == [conn[c] EXCEPT !.pc = label, !.ent = cache[KeyOf(c)]]

\* cache.Delete(key) and cache.Store(key, e)
Deleted(key) == [cache EXCEPT ![key] = NoEntry]
Stored(key, e) == [cache EXCEPT ![key] = e]

\* a faulty kind test, which tells only a String from the other kinds
WrongKindOfStrings(e, type) == e.Type # type /\ e.Type = StringType

\* the kind test of every handler but SET, DEL and TTL, for a command that
\* expects kind type and has loaded the entry e
WrongKind(e, type) == e.Type # type

----------------------------------------------------------------------------
(* GET                                                                     *)

\* a faulty first step, which lets GET with more arguments pass
GetLoadLoose(c) ==
    /\ At(c, "get")
    /\ UNCHANGED cache
    /\ IF Len(conn[c].req) < 2 THEN Done(c, ArityError("GET"), heap)
       ELSE IF ~Found(c) THEN Done(c, NilBulk, heap)
       ELSE Step(c, Loaded(c, "get_check"), heap)

GetLoad(c) ==
    /\ At(c, "get")
    /\ UNCHANGED cache
    /\ IF Len(conn[c].req) # 2 THEN Done(c, ArityError("GET"), heap)
       ELSE IF ~Found(c) THEN Done(c, NilBulk, heap)
       ELSE Step(c, Loaded(c, "get_check"), heap)

GetCheck(c) ==
    /\ At(c, "get_check")
    /\ UNCHANGED cache
    /\ IF isExpired(conn[c].ent, now)
       THEN Step(c, [conn[c] EXCEPT !.pc = "get_delete"], heap)
       ELSE IF WrongKind(conn[c].ent, StringType) THEN Done(c, WrongType, heap)
       ELSE Done(c, BulkReply(conn[c].ent.Str), heap)

GetDelete(c) ==
    /\ At(c, "get_delete")
    /\ cache' = Deleted(KeyOf(c))
    /\ Done(c, NilBulk, heap)

handleGet(c) == GetLoad(c) \/ GetCheck(c) \/ GetDelete(c)

----------------------------------------------------------------------------
(* SET                                                                     *)

\* lines 267-284: whether the EX/PX value, if any, is an integer
SetOptionOk(req) ==
    IF Len(req) >= 5 /\ ToUpper(req[4]) \in {EX, PX} THEN AtoiOk(req[5])
    ELSE TRUE

\* lines 265-284: expireDuration
SetDuration(req) ==
    IF Len(req) >= 5 /\ ToUpper(req[4]) = EX THEN TimesSecond(Atoi(req[5]))
    ELSE IF Len(req) >= 5 /\ ToUpper(req[4]) = PX
         THEN TimesMillisecond(Atoi(req[5]))
    ELSE Zero64

\* a faulty expireAt, which drops the option
SetExpireAtNone(req, t) == 0

\* lines 285-288: expireAt, with the clock reading t
SetExpireAt(req, t) ==
    IF IsPositive(SetDuration(req)) THEN t + DurationMs(SetDuration(req)) ELSE 0

\* a faulty entry, which takes the key for the value
SetEntryOfKey(req, expireAt) == Entry(StringType, req[2], 0, expireAt)

\* lines 289-293
SetEntry(req, expireAt) == Entry(StringType, req[3], 0, expireAt)

SetBegin(c) ==
    /\ At(c, "set")
    /\ UNCHANGED cache
    /\ IF Len(conn[c].req) < 3 THEN Done(c, ArityError("SET"), heap)
       ELSE IF ~SetOptionOk(conn[c].req)
            THEN Done(c, InvalidExpiration(IF ToUpper(conn[c].req[4]) = EX
                                           THEN "EX" ELSE "PX"), heap)
       ELSE Step(c, [conn[c] EXCEPT !.pc = "set_store",
                        !.expireAt = SetExpireAt(conn[c].req, now)], heap)

SetStore(c) ==
    /\ At(c, "set_store")
    /\ cache' = Stored(KeyOf(c), SetEntry(conn[c].req, conn[c].expireAt))
    /\ Done(c, StatusOK, heap)

handleSet(c) == SetBegin(c) \/ SetStore(c)

----------------------------------------------------------------------------
(* DEL                                                                     *)

\* a faulty visit, which stays at the first key
DelKeyFirst(c) == conn[c].req[2]

\* conn.idx is the position in args of the key being visited (0: the first)
DelKey(c) == conn[c].req[IF conn[c].idx = 0 THEN 2 ELSE conn[c].idx]

DelLoad(c) ==
    /\ At(c, "del")
    /\ UNCHANGED cache
    /\ LET i == IF conn[c].idx = 0 THEN 2 ELSE conn[c].idx IN
       IF Len(conn[c].req) < 2 THEN Done(c, ArityError("DEL"), heap)
       ELSE IF i > Len(conn[c].req) THEN Done(c, IntReply(conn[c].count), heap)
       ELSE IF cache[conn[c].req[i]] = NoEntry
            THEN Step(c, [conn[c] EXCEPT !.idx = i + 1], heap)
       ELSE Step(c, [conn[c] EXCEPT !.pc = "del_check", !.idx = i,
                                    !.ent = cache[conn[c].req[i]]], heap)

DelCheck(c) ==
    /\ At(c, "del_check")
    /\ UNCHANGED cache
    /\ Step(c, [conn[c] EXCEPT !.pc = "del_delete",
                  !.count = IF isExpired(conn[c].ent, now) THEN @ ELSE @ + 1],
            heap)

DelDelete(c) ==
    /\ At(c, "del_delete")
    /\ cache' = Deleted(DelKey(c))
    /\ Step(c, [conn[c] EXCEPT !.pc = "del", !.idx = @ + 1, !.ent = NoEntry], heap)

handleDel(c) == DelLoad(c) \/ DelCheck(c) \/ DelDelete(c)

----------------------------------------------------------------------------
(* TTL                                                                     *)

\* int(d.Seconds()) for d milliseconds: truncation toward zero
TruncSeconds(d) == IF d >= 0 THEN d \div 1000 ELSE 0 - ((0 - d) \div 1000)

\* a faulty remaining time, without the clamp at 0
RemainingUnclamped(e, t) == TruncSeconds(e.ExpireAt - t)

\* lines 342-345, with the clock reading t
RemainingTTL(e, t) ==
    LET ttl == TruncSeconds(e.ExpireAt - t) IN IF ttl < 0 THEN 0 ELSE ttl

TtlLoad(c) ==
    /\ At(c, "ttl")
    /\ UNCHANGED cache
    /\ IF Len(conn[c].req) # 2 THEN Done(c, ArityError("TTL"), heap)
       ELSE IF ~Found(c) THEN Done(c, IntReply(-2), heap)
       ELSE Step(c, Loaded(c, "ttl_check"), heap)

\* a faulty TTL, which refuses what is no String
TtlCheckOfStrings(c) ==
    /\ At(c, "ttl_check")
    /\ UNCHANGED cache
    /\ IF isExpired(conn[c].ent, now)
       THEN Step(c, [conn[c] EXCEPT !.pc = "ttl_delete"], heap)
       ELSE IF conn[c].ent.Type # StringType THEN Done(c, WrongType, heap)
       ELSE IF conn[c].ent.ExpireAt = 0 THEN Done(c, IntReply(-1), heap)
       ELSE Step(c, [conn[c] EXCEPT !.pc = "ttl_remaining"], heap)

TtlCheck(c) ==
    /\ At(c, "ttl_check")
    /\ UNCHANGED cache
    /\ IF isExpired(conn[c].ent, now)
       THEN Step(c, [conn[c] EXCEPT !.pc = "ttl_delete"], heap)
       ELSE IF conn[c].ent.ExpireAt = 0 THEN Done(c, IntReply(-1), heap)
       ELSE Step(c, [conn[c] EXCEPT !.pc = "ttl_remaining"], heap)

TtlDelete(c) ==
    /\ At(c, "ttl_delete")
    /\ cache' = Deleted(KeyOf(c))
    /\ Done(c, IntReply(-2), heap)

TtlRemaining(c) ==
    /\ At(c, "ttl_remaining")
    /\ UNCHANGED cache
    /\ Done(c, IntReply(RemainingTTL(conn[c].ent, now)), heap)

handleTTL(c) == TtlLoad(c) \/ TtlCheck(c) \/ TtlDelete(c) \/ TtlRemaining(c)

----------------------------------------------------------------------------
(* LPUSH.  The first read of a container comes right after isExpired and   *)
(* the kind test, which read only fields of the Entry that never change    *)
(* (and the clock, which no List, Set or Hash entry depends on): it is     *)
(* taken in the same step.                                                 *)

\* a faulty push, at the wrong end
PushBack(newElems, list) == list \o newElems

\* line 370: append(newElems, list...)
PushFront(newElems, list) == newElems \o list

LPushLoad(c) ==
    /\ At(c, "lpush")
    /\ UNCHANGED cache
    /\ IF Len(conn[c].req) < 3 THEN Done(c, ArityError("LPUSH"), heap)
       ELSE IF ~Found(c) THEN Step(c, [conn[c] EXCEPT !.pc = "lpush_store"], heap)
       ELSE Step(c, Loaded(c, "lpush_check"), heap)

LPushCheck(c) ==
    /\ At(c, "lpush_check")
    /\ UNCHANGED cache
    /\ IF isExpired(conn[c].ent, now)
       THEN Step(c, [conn[c] EXCEPT !.pc = "lpush_delete"], heap)
       ELSE IF WrongKind(conn[c].ent, ListType) THEN Done(c, WrongType, heap)
       ELSE Step(c, [conn[c] EXCEPT !.pc = "lpush_store",
                        !.list = heap[conn[c].ent.Ref].list], heap)

LPushDelete(c) ==
    /\ At(c, "lpush_delete")
    /\ cache' = Deleted(KeyOf(c))
    /\ Step(c, [conn[c] EXCEPT !.pc = "lpush_store"], heap)

\* lines 369-377: a new Entry with the new slice is stored
LPushStore(c) ==
    /\ At(c, "lpush_store")
    /\ LET list == PushFront(SubSeq(conn[c].req, 3, Len(conn[c].req)), conn[c].list)
           r == NewRef(cache, conn)
       IN  /\ cache' = Stored(KeyOf(c), Entry(ListType, <<>>, r, 0))
           /\ Done(c, IntReply(Len(list)), [heap EXCEPT ![r].list = list])

handleLPush(c) == LPushLoad(c) \/ LPushCheck(c) \/ LPushDelete(c) \/ LPushStore(c)

----------------------------------------------------------------------------
(* LPOP                                                                    *)

LPopLoad(c) ==
    /\ At(c, "lpop")
    /\ UNCHANGED cache
    /\ IF Len(conn[c].req) # 2 THEN Done(c, ArityError("LPOP"), heap)
       ELSE IF ~Found(c) THEN Done(c, NilBulk, heap)
       ELSE Step(c, Loaded(c, "lpop_check"), heap)

\* lines 393-409: list := entry.Value; popped := list[0]; list = list[1:]
LPopCheck(c) ==
    /\ At(c, "lpop_check")
    /\ UNCHANGED cache
    /\ LET list == heap[conn[c].ent.Ref].list IN
       IF isExpired(conn[c].ent, now)
       THEN Step(c, [conn[c] EXCEPT !.pc = "lpop_delete"], heap)
       ELSE IF WrongKind(conn[c].ent, ListType) THEN Done(c, WrongType, heap)
       ELSE IF Len(list) = 0 THEN Done(c, NilBulk, heap)
       ELSE Step(c, [conn[c] EXCEPT
                        !.pc = IF Len(Tail(list)) = 0 THEN "lpop_remove"
                               ELSE "lpop_write",
                        !.str = Head(list), !.list = Tail(list)], heap)

LPopDelete(c) ==
    /\ At(c, "lpop_delete")
    /\ cache' = Deleted(KeyOf(c))
    /\ Done(c, NilBulk, heap)

\* a faulty pop of the last element, which keeps the key
LPopRemoveKeeps(c) ==
    /\ At(c, "lpop_remove")
    /\ UNCHANGED cache
    /\ Done(c, BulkReply(conn[c].str), heap)

\* line 410
LPopRemove(c) ==
    /\ At(c, "lpop_remove")
    /\ cache' = Deleted(KeyOf(c))
    /\ Done(c, BulkReply(conn[c].str), heap)

\* line 412: entry.Value = list, on the Entry that was loaded
LPopWrite(c) ==
    /\ At(c, "lpop_write")
    /\ UNCHANGED cache
    /\ Step(c, [conn[c] EXCEPT !.pc = "lpop_store"],
            [heap EXCEPT ![conn[c].ent.Ref].list = conn[c].list])

\* line 413: cache.Store(key, entry), the Entry that was loaded
LPopStore(c) ==
    /\ At(c, "lpop_store")
    /\ cache' = Stored(KeyOf(c), conn[c].ent)
    /\ Done(c, BulkReply(conn[c].str), heap)

handleLPop(c) ==
    \/ LPopLoad(c) \/ LPopCheck(c) \/ LPopDelete(c)
    \/ LPopRemove(c) \/ LPopWrite(c) \/ LPopStore(c)

----------------------------------------------------------------------------
(* LRANGE                                                                  *)

\* a faulty slice, which leaves out the element at stop
LRangeSliceShort(list, start, stop) ==
    LET n == Len(list)
        s1 == IF start < 0 THEN n + start ELSE start
        e1 == IF stop < 0 THEN n + stop ELSE stop
        s2 == IF s1 < 0 THEN 0 ELSE s1
        e2 == IF e1 < 0 THEN 0 ELSE e1
        e3 == IF e2 > n - 1 THEN n - 1 ELSE e2
    IN  IF s2 > n - 1 THEN <<>>
        ELSE IF s2 > e3 THEN <<>>
        ELSE SubSeq(list, s2 + 1, e3)

\* lines 677-704: the elements replied for start and stop, <<>> for "*0"
LRangeSlice(list, start, stop) ==
    LET n == Len(list)
        s1 == IF start < 0 THEN n + start ELSE start
        e1 == IF stop < 0 THEN n + stop ELSE stop
        s2 == IF s1 < 0 THEN 0 ELSE s1
        e2 == IF e1 < 0 THEN 0 ELSE e1
        e3 == IF e2 > n - 1 THEN n - 1 ELSE e2
    IN  IF s2 > n - 1 THEN <<>>
        ELSE IF s2 > e3 THEN <<>>
        ELSE SubSeq(list, s2 + 1, e3 + 1)

\* a faulty first step, which looks the key up before it tests the indices
LRangeLoadLooksFirst(c) ==
    /\ At(c, "lrange")
    /\ UNCHANGED cache
    /\ IF Len(conn[c].req) # 4 THEN Done(c, ArityError("LRANGE"), heap)
       ELSE IF ~Found(c) THEN Done(c, EmptyArray, heap)
       ELSE IF ~AtoiOk(conn[c].req[3]) \/ ~AtoiOk(conn[c].req[4])
            THEN Done(c, NotAnInteger, heap)
       ELSE Step(c, Loaded(c, "lrange_check"), heap)

LRangeLoad(c) ==
    /\ At(c, "lrange")
    /\ UNCHANGED cache
    /\ IF Len(conn[c].req) # 4 THEN Done(c, ArityError("LRANGE"), heap)
       ELSE IF ~AtoiOk(conn[c].req[3]) \/ ~AtoiOk(conn[c].req[4])
            THEN Done(c, NotAnInteger, heap)
       ELSE IF ~Found(c) THEN Done(c, EmptyArray, heap)
       ELSE Step(c, Loaded(c, "lrange_check"), heap)

LRangeCheck(c) ==
    /\ At(c, "lrange_check")
    /\ UNCHANGED cache
    /\ LET sub == LRangeSlice(heap[conn[c].ent.Ref].list,
                              ToInt(Atoi(conn[c].req[3])),
                              ToInt(Atoi(conn[c].req[4])))
       IN  IF isExpired(conn[c].ent, now)
           THEN Step(c, [conn[c] EXCEPT !.pc = "lrange_delete"], heap)
           ELSE IF WrongKind(conn[c].ent, ListType) THEN Done(c, WrongType, heap)
           ELSE Done(c, ArrayReply(Len(sub), sub), heap)

LRangeDelete(c) ==
    /\ At(c, "lrange_delete")
    /\ cache' = Deleted(KeyOf(c))
    /\ Done(c, EmptyArray, heap)

handleLRange(c) == LRangeLoad(c) \/ LRangeCheck(c) \/ LRangeDelete(c)

----------------------------------------------------------------------------
(* SADD.  On an existing Set the members go into the map the entry points  *)
(* to, one lookup and one insertion at a time; on an absent or expired key *)
(* the map is new and nobody else sees it before cache.Store.              *)

\* a faulty new set, of the first member only
MembersFirst(req) == {req[3]}

Members(req) == {req[i] : i \in 3..Len(req)}

\* where the loop over args[2:] goes after the member at conn.idx
NextMember(l, label, after) ==
    [l EXCEPT !.idx = @ + 1,
              !.pc = IF l.idx + 1 > Len(l.req) THEN after ELSE label]

\* line 443: _, exists := set[member]
SAddLookedUp(l, set) ==
    IF l.req[l.idx] \in set THEN NextMember(l, "sadd_lookup", "sadd_store")
    ELSE [l EXCEPT !.pc = "sadd_insert"]

SAddLoad(c) ==
    /\ At(c, "sadd")
    /\ UNCHANGED cache
    /\ IF Len(conn[c].req) < 3 THEN Done(c, ArityError("SADD"), heap)
       ELSE IF ~Found(c) THEN Step(c, [conn[c] EXCEPT !.pc = "sadd_store"], heap)
       ELSE Step(c, Loaded(c, "sadd_check"), heap)

SAddCheck(c) ==
    /\ At(c, "sadd_check")
    /\ UNCHANGED cache
    /\ IF isExpired(conn[c].ent, now)
       THEN Step(c, [conn[c] EXCEPT !.pc = "sadd_delete"], heap)
       ELSE IF WrongKind(conn[c].ent, SetType) THEN Done(c, WrongType, heap)
       ELSE Step(c, SAddLookedUp([conn[c] EXCEPT !.ref = conn[c].ent.Ref, !.idx = 3],
                                 heap[conn[c].ent.Ref].set), heap)

SAddDelete(c) ==
    /\ At(c, "sadd_delete")
    /\ cache' = Deleted(KeyOf(c))
    /\ Step(c, [conn[c] EXCEPT !.pc = "sadd_store"], heap)

SAddLookup(c) ==
    /\ At(c, "sadd_lookup")
    /\ UNCHANGED cache
    /\ Step(c, SAddLookedUp(conn[c], heap[conn[c].ref].set), heap)

\* lines 444-445: set[member] = struct{}{}; added++
SAddInsert(c) ==
    /\ At(c, "sadd_insert")
    /\ UNCHANGED cache
    /\ Step(c, NextMember([conn[c] EXCEPT !.count = @ + 1],
                          "sadd_lookup", "sadd_store"),
            [heap EXCEPT ![conn[c].ref].set = @ \cup {conn[c].req[conn[c].idx]}])

\* lines 448-453: a new Entry pointing to the map is stored
SAddStore(c) ==
    /\ At(c, "sadd_store")
    /\ IF conn[c].ref = 0
       THEN LET r == NewRef(cache, conn) IN
            /\ cache' = Stored(KeyOf(c), Entry(SetType, <<>>, r, 0))
            /\ Done(c, IntReply(Cardinality(Members(conn[c].req))),
                    [heap EXCEPT ![r].set = Members(conn[c].req)])
       ELSE /\ cache' = Stored(KeyOf(c), Entry(SetType, <<>>, conn[c].ref, 0))
            /\ Done(c, IntReply(conn[c].count), heap)

handleSAdd(c) ==
    \/ SAddLoad(c) \/ SAddCheck(c) \/ SAddDelete(c)
    \/ SAddLookup(c) \/ SAddInsert(c) \/ SAddStore(c)

----------------------------------------------------------------------------
(* SMEMBERS                                                                *)

\* the orders a range over a map may yield its keys in
Orders(set) ==
    {q \in [1..Cardinality(set) -> set] :
        \A i, j \in 1..Cardinality(set) : q[i] = q[j] => i = j}

SMembersLoad(c) ==
    /\ At(c, "smembers")
    /\ UNCHANGED cache
    /\ IF Len(conn[c].req) # 2 THEN Done(c, ArityError("SMEMBERS"), heap)
       ELSE IF ~Found(c) THEN Done(c, EmptyArray, heap)
       ELSE Step(c, Loaded(c, "smembers_check"), heap)

\* line 480: the header is written from len(set)
SMembersCheck(c) ==
    /\ At(c, "smembers_check")
    /\ UNCHANGED cache
    /\ IF isExpired(conn[c].ent, now)
       THEN Step(c, [conn[c] EXCEPT !.pc = "smembers_delete"], heap)
       ELSE IF WrongKind(conn[c].ent, SetType) THEN Done(c, WrongType, heap)
       ELSE Step(c, [conn[c] EXCEPT !.pc = "smembers_range",
                        !.ref = conn[c].ent.Ref,
                        !.count = Cardinality(heap[conn[c].ent.Ref].set)], heap)

SMembersDelete(c) ==
    /\ At(c, "smembers_delete")
    /\ cache' = Deleted(KeyOf(c))
    /\ Done(c, EmptyArray, heap)

\* lines 481-484: the members are written from a range over the map
SMembersRange(c) ==
    /\ At(c, "smembers_range")
    /\ UNCHANGED cache
    /\ \E q \in Orders(heap[conn[c].ref].set) :
          Done(c, ArrayReply(conn[c].count, q), heap)

handleSMembers(c) ==
    SMembersLoad(c) \/ SMembersCheck(c) \/ SMembersDelete(c) \/ SMembersRange(c)

----------------------------------------------------------------------------
(* SREM                                                                    *)

\* line 513: _, exists := set[member]
SRemLookedUp(l, set) ==
    IF l.req[l.idx] \in set THEN [l EXCEPT !.pc = "srem_remove"]
    ELSE NextMember(l, "srem_lookup", "srem_len")

SRemLoad(c) ==
    /\ At(c, "srem")
    /\ UNCHANGED cache
    /\ IF Len(conn[c].req) < 3 THEN Done(c, ArityError("SREM"), heap)
       ELSE IF ~Found(c) THEN Done(c, IntReply(0), heap)
       ELSE Step(c, Loaded(c, "srem_check"), heap)

SRemCheck(c) ==
    /\ At(c, "srem_check")
    /\ UNCHANGED cache
    /\ IF isExpired(conn[c].ent, now)
       THEN Step(c, [conn[c] EXCEPT !.pc = "srem_expired"], heap)
       ELSE IF WrongKind(conn[c].ent, SetType) THEN Done(c, WrongType, heap)
       ELSE Step(c, SRemLookedUp([conn[c] EXCEPT !.ref = conn[c].ent.Ref, !.idx = 3],
                                 heap[conn[c].ent.Ref].set), heap)

SRemExpired(c) ==
    /\ At(c, "srem_expired")
    /\ cache' = Deleted(KeyOf(c))
    /\ Done(c, IntReply(0), heap)

SRemLookup(c) ==
    /\ At(c, "srem_lookup")
    /\ UNCHANGED cache
    /\ Step(c, SRemLookedUp(conn[c], heap[conn[c].ref].set), heap)

\* lines 514-515: delete(set, member); removed++
SRemRemove(c) ==
    /\ At(c, "srem_remove")
    /\ UNCHANGED cache
    /\ Step(c, NextMember([conn[c] EXCEPT !.count = @ + 1],
                          "srem_lookup", "srem_len"),
            [heap EXCEPT ![conn[c].ref].set = @ \ {conn[c].req[conn[c].idx]}])

\* line 519: len(set) == 0
SRemLen(c) ==
    /\ At(c, "srem_len")
    /\ UNCHANGED cache
    /\ Step(c, [conn[c] EXCEPT !.pc = IF heap[conn[c].ref].set = {}
                                      THEN "srem_delete" ELSE "srem_store"], heap)

\* line 520
SRemDelete(c) ==
    /\ At(c, "srem_delete")
    /\ cache' = Deleted(KeyOf(c))
    /\ Done(c, IntReply(conn[c].count), heap)

\* lines 523-524: the Entry that was loaded is stored again
SRemStore(c) ==
    /\ At(c, "srem_store")
    /\ cache' = Stored(KeyOf(c), conn[c].ent)
    /\ Done(c, IntReply(conn[c].count), heap)

handleSRem(c) ==
    \/ SRemLoad(c) \/ SRemCheck(c) \/ SRemExpired(c) \/ SRemLookup(c)
    \/ SRemRemove(c) \/ SRemLen(c) \/ SRemDelete(c) \/ SRemStore(c)

----------------------------------------------------------------------------
(* HSET, HGET, HDEL.  A map[string]string is a function on its fields.     *)

\* a faulty assignment, which forgets the other fields
HashPutAlone(h, field, value) == [x \in {field} |-> value]

HashPut(h, field, value) ==
    [f \in (DOMAIN h) \cup {field} |-> IF f = field THEN value ELSE h[f]]

\* a faulty removal, which removes nothing
HashRemoveNothing(h, field) == h

HashRemove(h, field) ==
    IF (DOMAIN h) \ {field} = {} THEN <<>>
    ELSE [f \in (DOMAIN h) \ {field} |-> h[f]]

HSetLoad(c) ==
    /\ At(c, "hset")
    /\ UNCHANGED cache
    /\ IF Len(conn[c].req) # 4 THEN Done(c, ArityError("HSET"), heap)
       ELSE IF ~Found(c) THEN Step(c, [conn[c] EXCEPT !.pc = "hset_store"], heap)
       ELSE Step(c, Loaded(c, "hset_check"), heap)

\* line 556: _, exists := hash[field]; conn.count is 1 when it exists
HSetCheck(c) ==
    /\ At(c, "hset_check")
    /\ UNCHANGED cache
    /\ IF isExpired(conn[c].ent, now)
       THEN Step(c, [conn[c] EXCEPT !.pc = "hset_delete"], heap)
       ELSE IF WrongKind(conn[c].ent, HashType) THEN Done(c, WrongType, heap)
       ELSE Step(c, [conn[c] EXCEPT !.pc = "hset_assign",
                        !.ref = conn[c].ent.Ref,
                        !.count = IF conn[c].req[3] \in DOMAIN heap[conn[c].ent.Ref].hash
                                  THEN 1 ELSE 0], heap)

HSetDelete(c) ==
    /\ At(c, "hset_delete")
    /\ cache' = Deleted(KeyOf(c))
    /\ Step(c, [conn[c] EXCEPT !.pc = "hset_store"], heap)

\* line 557: hash[field] = value, in the map the entry points to
HSetAssign(c) ==
    /\ At(c, "hset_assign")
    /\ UNCHANGED cache
    /\ Step(c, [conn[c] EXCEPT !.pc = "hset_store"],
            [heap EXCEPT ![conn[c].ref].hash =
                HashPut(@, conn[c].req[3], conn[c].req[4])])

\* lines 558-567: a new Entry pointing to the map is stored
HSetStore(c) ==
    /\ At(c, "hset_store")
    /\ IF conn[c].ref = 0
       THEN LET r == NewRef(cache, conn) IN
            /\ cache' = Stored(KeyOf(c), Entry(HashType, <<>>, r, 0))
            /\ Done(c, IntReply(1),
                    [heap EXCEPT ![r].hash =
                        HashPut(<<>>, conn[c].req[3], conn[c].req[4])])
       ELSE /\ cache' = Stored(KeyOf(c), Entry(HashType, <<>>, conn[c].ref, 0))
            /\ Done(c, IntReply(IF conn[c].count = 1 THEN 0 ELSE 1), heap)

handleHSet(c) ==
    HSetLoad(c) \/ HSetCheck(c) \/ HSetDelete(c) \/ HSetAssign(c) \/ HSetStore(c)

HGetLoad(c) ==
    /\ At(c, "hget")
    /\ UNCHANGED cache
    /\ IF Len(conn[c].req) # 3 THEN Done(c, ArityError("HGET"), heap)
       ELSE IF ~Found(c) THEN Done(c, NilBulk, heap)
       ELSE Step(c, Loaded(c, "hget_check"), heap)

HGetCheck(c) ==
    /\ At(c, "hget_check")
    /\ UNCHANGED cache
    /\ LET hash == heap[conn[c].ent.Ref].hash IN
       IF isExpired(conn[c].ent, now)
       THEN Step(c, [conn[c] EXCEPT !.pc = "hget_delete"], heap)
       ELSE IF WrongKind(conn[c].ent, HashType) THEN Done(c, WrongType, heap)
       ELSE IF conn[c].req[3] \notin DOMAIN hash THEN Done(c, NilBulk, heap)
       ELSE Done(c, BulkReply(hash[conn[c].req[3]]), heap)

HGetDelete(c) ==
    /\ At(c, "hget_delete")
    /\ cache' = Deleted(KeyOf(c))
    /\ Done(c, NilBulk, heap)

handleHGet(c) == HGetLoad(c) \/ HGetCheck(c) \/ HGetDelete(c)

\* line 631: _, exists := hash[field]
HDelLookedUp(l, hash) ==
    IF l.req[l.idx] \in DOMAIN hash THEN [l EXCEPT !.pc = "hdel_remove"]
    ELSE NextMember(l, "hdel_lookup", "hdel_len")

HDelLoad(c) ==
    /\ At(c, "hdel")
    /\ UNCHANGED cache
    /\ IF Len(conn[c].req) < 3 THEN Done(c, ArityError("HDEL"), heap)
       ELSE IF ~Found(c) THEN Done(c, IntReply(0), heap)
       ELSE Step(c, Loaded(c, "hdel_check"), heap)

HDelCheck(c) ==
    /\ At(c, "hdel_check")
    /\ UNCHANGED cache
    /\ IF isExpired(conn[c].ent, now)
       THEN Step(c, [conn[c] EXCEPT !.pc = "hdel_expired"], heap)
       ELSE IF WrongKind(conn[c].ent, HashType) THEN Done(c, WrongType, heap)
       ELSE Step(c, HDelLookedUp([conn[c] EXCEPT !.ref = conn[c].ent.Ref, !.idx = 3],
                                 heap[conn[c].ent.Ref].hash), heap)

HDelExpired(c) ==
    /\ At(c, "hdel_expired")
    /\ cache' = Deleted(KeyOf(c))
    /\ Done(c, IntReply(0), heap)

HDelLookup(c) ==
    /\ At(c, "hdel_lookup")
    /\ UNCHANGED cache
    /\ Step(c, HDelLookedUp(conn[c], heap[conn[c].ref].hash), heap)

\* lines 632-633: delete(hash, field); deletedCount++
HDelRemove(c) ==
    /\ At(c, "hdel_remove")
    /\ UNCHANGED cache
    /\ Step(c, NextMember([conn[c] EXCEPT !.count = @ + 1],
                          "hdel_lookup", "hdel_len"),
            [heap EXCEPT ![conn[c].ref].hash = HashRemove(@, conn[c].req[conn[c].idx])])

\* line 638: len(hash) == 0
HDelLen(c) ==
    /\ At(c, "hdel_len")
    /\ UNCHANGED cache
    /\ Step(c, [conn[c] EXCEPT !.pc = IF DOMAIN heap[conn[c].ref].hash = {}
                                      THEN "hdel_delete" ELSE "hdel_store"], heap)

\* line 639
HDelDelete(c) ==
    /\ At(c, "hdel_delete")
    /\ cache' = Deleted(KeyOf(c))
    /\ Done(c, IntReply(conn[c].count), heap)

\* lines 641-642: the Entry that was loaded is stored again
HDelStore(c) ==
    /\ At(c, "hdel_store")
    /\ cache' = Stored(KeyOf(c), conn[c].ent)
    /\ Done(c, IntReply(conn[c].count), heap)

handleHDel(c) ==
    \/ HDelLoad(c) \/ HDelCheck(c) \/ HDelExpired(c) \/ HDelLookup(c)
    \/ HDelRemove(c) \/ HDelLen(c) \/ HDelDelete(c) \/ HDelStore(c)

----------------------------------------------------------------------------
(* The leaderboard: LBADD and LBTOP.  leaderboard maps the users that have *)
(* a score to it.                                                          *)

\* a faulty clamp, from above only
ClampedAbove(score) ==
    IF ~IsNegative(score) /\ (score[4] > 0 \/ score[3] > 0 \/ score[2] > 0
                              \/ score[1] > 10000)
    THEN 10000 ELSE ToInt(score)

\* lines 729-733: the score, an int of 64 bits, limited to [0, 10000]
Clamped(score) ==
    IF ~IsNegative(score) /\ (score[4] > 0 \/ score[3] > 0 \/ score[2] > 0
                              \/ score[1] > 10000)
    THEN 10000
    ELSE IF IsNegative(score) THEN 0
    ELSE score[1]

\* leaderboard.Store(user, score)
LBStored(user, score) ==
    [u \in (DOMAIN leaderboard) \cup {user} |->
        IF u = user THEN score ELSE leaderboard[u]]

\* an LBADD whose users share the keys of the store: it removes the key
\* that is named as the user
handleLBAddSharedKeys(c) ==
    /\ At(c, "lbadd")
    /\ UNCHANGED heap
    /\ IF Len(conn[c].req) # 3
       THEN Written(c, ArityError("LBADD")) /\ UNCHANGED <<cache, leaderboard>>
       ELSE IF ~AtoiOk(conn[c].req[3])
       THEN Written(c, ScoreNotInteger) /\ UNCHANGED <<cache, leaderboard>>
       ELSE /\ leaderboard' = LBStored(conn[c].req[2], Clamped(Atoi(conn[c].req[3])))
            /\ cache' = [k \in Keys |->
                           IF k = conn[c].req[2] THEN NoEntry ELSE cache[k]]
            /\ Written(c, StatusOK)

handleLBAdd(c) ==
    /\ At(c, "lbadd")
    /\ UNCHANGED <<cache, heap>>
    /\ IF Len(conn[c].req) # 3
       THEN Written(c, ArityError("LBADD")) /\ UNCHANGED leaderboard
       ELSE IF ~AtoiOk(conn[c].req[3])
       THEN Written(c, ScoreNotInteger) /\ UNCHANGED leaderboard
       ELSE /\ leaderboard' = LBStored(conn[c].req[2], Clamped(Atoi(conn[c].req[3])))
            /\ Written(c, StatusOK)

\* lines 741-749: the tests of the arguments; then leaderboard.Range
\* begins, which visits every user that has a score by then
LBTopBegin(c) ==
    /\ At(c, "lbtop")
    /\ UNCHANGED cache
    /\ IF Len(conn[c].req) # 2 THEN Done(c, ArityError("LBTOP"), heap)
       ELSE IF ~AtoiOk(conn[c].req[2]) \/ ~IsPositive(Atoi(conn[c].req[2]))
       THEN Done(c, NotPositiveInteger, heap)
       ELSE Step(c, [conn[c] EXCEPT !.pc = "lbtop_range",
                                    !.todo = DOMAIN leaderboard], heap)

\* the users that Range has visited
Visited(c) == {conn[c].data[i].User : i \in 1..Len(conn[c].data)}

\* lines 754-760: Range visits one more user, in an order of its own, and
\* appends the user and the score it has by now
LBTopVisit(c) ==
    /\ At(c, "lbtop_range")
    /\ UNCHANGED cache
    /\ \E user \in (DOMAIN leaderboard) \ Visited(c) :
         Step(c, [conn[c] EXCEPT !.data =
                    Append(@, [User |-> user, Score |-> leaderboard[user]])],
              heap)

\* lines 763-766: the less function given to sort.Slice
LBLess(x, y) ==
    IF x.Score = y.Score THEN StringLess(x.User, y.User)
    ELSE x.Score > y.Score

\* lines 762-767: sort.Slice(data, less)
SortSlice(data) ==
    CHOOSE s \in [1..Len(data) -> {data[i] : i \in 1..Len(data)}] :
        /\ \A i \in 1..Len(data) : \E j \in 1..Len(data) : s[j] = data[i]
        /\ \A i, j \in 1..Len(data) : i < j => ~LBLess(s[j], s[i])

\* a faulty count, which cuts nothing
LBTopCountAll(topN, len) == len

\* lines 768-770: if topN > len(data) { topN = len(data) }
LBTopCount(topN, len) == IF topN > len THEN len ELSE topN

\* lines 772-778: the users and their scores in decimal, one after another
LBTopItems(data, n) ==
    [i \in 1..(2 * n) |->
        IF i % 2 = 1 THEN data[(i + 1) \div 2].User
        ELSE Itoa(data[i \div 2].Score)]

\* Range has visited every user it had to; lines 761-779
LBTopReply(c) ==
    /\ At(c, "lbtop_range")
    /\ conn[c].todo \subseteq Visited(c)
    /\ UNCHANGED cache
    /\ LET n == LBTopCount(ToInt(Atoi(conn[c].req[2])), Len(conn[c].data))
       IN  Done(c, ArrayReply(2 * n, LBTopItems(SortSlice(conn[c].data), n)),
                heap)

handleLBTop(c) == LBTopBegin(c) \/ LBTopVisit(c) \/ LBTopReply(c)

----------------------------------------------------------------------------
(* GET /leaderboard.  The handler runs beside the workers of the           *)
(* connections; its Range is the one of LBTOP.                             *)

\* line 799: topN := 20
TopShown == 20

\* the handler is called
SnapshotBegin(limit) ==
    /\ http.pc = "idle"
    /\ Len(http.pages) < limit
    /\ http' = [http EXCEPT !.pc = "range", !.todo = DOMAIN leaderboard]
    /\ UNCHANGED <<cache, heap, now, conn, out, issued, leaderboard, sock>>

\* the users that Range has visited
SnapshotVisited == {http.data[i].User : i \in 1..Len(http.data)}

\* lines 789-795: Range visits one more user and appends the user and the
\* score it has by now
SnapshotVisit ==
    /\ http.pc = "range"
    /\ \E user \in (DOMAIN leaderboard) \ SnapshotVisited :
         http' = [http EXCEPT !.data =
                    Append(@, [User |-> user, Score |-> leaderboard[user]])]
    /\ UNCHANGED <<cache, heap, now, conn, out, issued, leaderboard, sock>>

\* a faulty less function, for an ascending order
SnapshotLessUp(x, y) == x.Score < y.Score

\* lines 796-798: the less function given to sort.Slice
SnapshotLess(x, y) == x.Score > y.Score

\* sort.Slice is not stable: s is one of the orders it may leave data in
SnapshotSorted(data, s) ==
    /\ \A i \in 1..Len(data) :
          Cardinality({j \in 1..Len(s) : s[j] = data[i]})
              = Cardinality({j \in 1..Len(data) : data[j] = data[i]})
    /\ \A i, j \in 1..Len(s) : i < j => ~SnapshotLess(s[j], s[i])

\* lines 796-822: Range has visited every user it had to; the rows of the
\* page are the first topN of the sorted data
SnapshotWrite ==
    /\ http.pc = "range"
    /\ http.todo \subseteq SnapshotVisited
    /\ \E s \in [1..Len(http.data) -> {http.data[i] : i \in 1..Len(http.data)}] :
         /\ SnapshotSorted(http.data, s)
         /\ LET topN == IF Len(s) < TopShown THEN Len(s) ELSE TopShown
            IN  http' = Resting(Append(http.pages, SubSeq(s, 1, topN)))
    /\ UNCHANGED <<cache, heap, now, conn, out, issued, leaderboard, sock>>

leaderboardSnapshotHandler(limit) ==
    SnapshotBegin(limit) \/ SnapshotVisit \/ SnapshotWrite

----------------------------------------------------------------------------
(* The other cases of the switch of handleConnection.                      *)

\* line 150: default
DefaultCase(c) ==
    /\ At(c, "unknown")
    /\ UNCHANGED cache
    /\ Done(c, UnknownCommand(conn[c].req[1]), heap)

\* a faulty QUIT, after which the worker reads on
QuitCaseReadsOn(c) ==
    /\ At(c, "quit")
    /\ Written(c, StatusOK)
    /\ UNCHANGED <<cache, heap, leaderboard>>

\* lines 145-147: QUIT replies and returns; the deferred conn.Close() ends
\* the connection, with whatever the client had sent behind the QUIT
QuitCase(c) ==
    /\ At(c, "quit")
    /\ out' = [out EXCEPT ![c] =
                 Append(@, [req |-> conn[c].req, rep |-> StatusOK,
                            saw |-> conn[c].ent])]
    /\ conn' = [conn EXCEPT ![c] = [IdleConn EXCEPT !.pc = "closed"]]
    /\ UNCHANGED <<cache, heap, now, issued, leaderboard, sock, http>>

----------------------------------------------------------------------------
(* The build of src/unnamed/part_002.  Its readCommand, handleSet and      *)
(* handleGet are those of part_000; its switch and its leaderboard         *)
(* handlers are not.                                                       *)

\* the worker of c writes reply r and returns from handleConnection
WrittenLast(c, r) ==
    /\ out' = [out EXCEPT ![c] =
                 Append(@, [req |-> conn[c].req, rep |-> r, saw |-> conn[c].ent])]
    /\ conn' = [conn EXCEPT ![c] = [IdleConn EXCEPT !.pc = "closed"]]
    /\ UNCHANGED <<now, issued, sock, http>>

\* part_002 lines 124-125: case "QUIT" writes +OK, and the switch ends
\* there
QuitCase002(c) ==
    /\ At(c, "quit")
    /\ Written(c, StatusOK)
    /\ UNCHANGED <<cache, heap, leaderboard>>

\* part_002 lines 553-568: the score is stored as Atoi gives it
handleLBAdd002(c) ==
    /\ At(c, "lbadd")
    /\ UNCHANGED <<cache, heap>>
    /\ IF Len(conn[c].req) # 3
       THEN Written(c, ArityError("LBADD")) /\ UNCHANGED leaderboard
       ELSE IF ~AtoiOk(conn[c].req[3])
       THEN Written(c, ScoreNotInteger) /\ UNCHANGED leaderboard
       ELSE /\ leaderboard' = LBStored(conn[c].req[2], ToInt(Atoi(conn[c].req[3])))
            /\ Written(c, StatusOK)

\* part_002 lines 126-129: case "LBTOP" calls handleLBTop and returns, so
\* every reply of LBTOP is the last of its connection
LBTopBegin002(c) ==
    /\ At(c, "lbtop")
    /\ UNCHANGED cache
    /\ IF Len(conn[c].req) # 2
       THEN WrittenLast(c, ArityError("LBTOP")) /\ UNCHANGED <<heap, leaderboard>>
       ELSE IF ~AtoiOk(conn[c].req[2]) \/ ~IsPositive(Atoi(conn[c].req[2]))
       THEN WrittenLast(c, NotPositiveInteger) /\ UNCHANGED <<heap, leaderboard>>
       ELSE Step(c, [conn[c] EXCEPT !.pc = "lbtop_range",
                                    !.todo = DOMAIN leaderboard], heap)

\* part_002 lines 596-624: the less function compares the scores only
LBTopReply002(c) ==
    /\ At(c, "lbtop_range")
    /\ conn[c].todo \subseteq Visited(c)
    /\ UNCHANGED <<cache, heap, leaderboard>>
    /\ \E s \in [1..Len(conn[c].data)
                   -> {conn[c].data[i] : i \in 1..Len(conn[c].data)}] :
         /\ SnapshotSorted(conn[c].data, s)
         /\ LET n == LBTopCount(ToInt(Atoi(conn[c].req[2])), Len(s))
            IN  WrittenLast(c, ArrayReply(2 * n, LBTopItems(s, n)))

handleLBTop002(c) == LBTopBegin002(c) \/ LBTopVisit(c) \/ LBTopReply002(c)

----------------------------------------------------------------------------
(* The bytes of a connection.  readCommand is computed on the bytes the    *)
(* client has sent and the worker has not read; it blocks while they do    *)
(* not hold a whole command, and the steps it takes inside one command     *)
(* touch nothing shared, so that taking a command off is one step.         *)

CRLF == <<"\r", "\n">>

\* the place of the first '\n' of buf, 0 when it has none: where
\* reader.ReadString('\n') ends
NewlineAt(buf) ==
    IF \E i \in 1..Len(buf) : buf[i] = "\n"
    THEN CHOOSE i \in 1..Len(buf) :
            buf[i] = "\n" /\ \A j \in 1..(i - 1) : buf[j] # "\n"
    ELSE 0

\* strings.TrimSuffix(line, "\r\n")
TrimSuffix(line) ==
    IF Len(line) >= 2 /\ line[Len(line) - 1] = "\r" /\ line[Len(line)] = "\n"
    THEN SubSeq(line, 1, Len(line) - 2)
    ELSE line

\* what readCommand comes to: a command (args, empty for nil), an error, a
\* panic, or a wait for more bytes; rest is what it leaves unread
Parsed(res, args, rest) == [res |-> res, args |-> args, rest |-> rest]

\* the bytes end before the command does: the read blocks, or fails when
\* the client has closed its end (EOF)
Starved(eof) == Parsed(IF eof THEN "error" ELSE "wait", <<>>, <<>>)

\* ReadBulks without the test of Discard(2)
RECURSIVE ReadBulksNoDiscard(_, _, _, _)
ReadBulksNoDiscard(buf, eof, count, args) ==
    IF count = 0 THEN Parsed("cmd", args, buf)
    ELSE LET nl == NewlineAt(buf)
             lengthLine == TrimSuffix(SubSeq(buf, 1, nl))
             after == SubSeq(buf, nl + 1, Len(buf))
             bulkLen == ToInt(Atoi(Tail(lengthLine)))
         IN  IF nl = 0 THEN Starved(eof)
             ELSE IF lengthLine = <<>> \/ lengthLine[1] # "$"
             THEN Parsed("error", <<>>, <<>>)
             ELSE IF ~AtoiOk(Tail(lengthLine)) THEN Parsed("error", <<>>, <<>>)
             ELSE IF bulkLen < 0 THEN Parsed("panic", <<>>, <<>>)
             ELSE IF Len(after) < bulkLen THEN Starved(eof)
             ELSE ReadBulksNoDiscard(SubSeq(after, bulkLen + 3, Len(after)),
                                     eof, count - 1,
                                     Append(args, SubSeq(after, 1, bulkLen)))

\* lines 173-194: the bulk strings of an array, count of them to come;
\* make([]byte, bulkLen) panics on a negative length
RECURSIVE ReadBulks(_, _, _, _)
ReadBulks(buf, eof, count, args) ==
    IF count = 0 THEN Parsed("cmd", args, buf)
    ELSE LET nl == NewlineAt(buf)
             lengthLine == TrimSuffix(SubSeq(buf, 1, nl))
             after == SubSeq(buf, nl + 1, Len(buf))
             bulkLen == ToInt(Atoi(Tail(lengthLine)))
         IN  IF nl = 0 THEN Starved(eof)
             ELSE IF lengthLine = <<>> \/ lengthLine[1] # "$"
             THEN Parsed("error", <<>>, <<>>)
             ELSE IF ~AtoiOk(Tail(lengthLine)) THEN Parsed("error", <<>>, <<>>)
             ELSE IF bulkLen < 0 THEN Parsed("panic", <<>>, <<>>)
             ELSE IF Len(after) < bulkLen + 2 THEN Starved(eof)
             ELSE ReadBulks(SubSeq(after, bulkLen + 3, Len(after)), eof,
                            count - 1, Append(args, SubSeq(after, 1, bulkLen)))

\* A byte that no UTF-8 text holds, and the three bytes of U+FFFD.
ByteFF == "0xFF"
RuneError == <<"0xEF", "0xBF", "0xBD">>

\* line 221: string(r) of the rune r that range yields at byte b of the
\* line: the byte again, but U+FFFD where the byte is no UTF-8
RuneString(b) == IF b = ByteFF THEN RuneError ELSE <<b>>

\* lines 207-226: the words of an inline command, from the rune at i on
RECURSIVE Tokens(_, _, _, _, _)
Tokens(line, i, inQuote, current, parts) ==
    IF i > Len(line)
    THEN IF current # <<>> THEN Append(parts, current) ELSE parts
    ELSE IF line[i] = " " /\ ~inQuote
    THEN Tokens(line, i + 1, inQuote, <<>>,
                IF current # <<>> THEN Append(parts, current) ELSE parts)
    ELSE IF line[i] = "\""
    THEN Tokens(line, i + 1, ~inQuote, current, parts)
    ELSE Tokens(line, i + 1, inQuote, current \o RuneString(line[i]), parts)

\* readCommand on the unread bytes buf; make([]string, 0, count) panics on
\* a negative count
readCommand(buf, eof) ==
    LET nl == NewlineAt(buf)
        line == TrimSuffix(SubSeq(buf, 1, nl))
        after == SubSeq(buf, nl + 1, Len(buf))
    IN  IF buf = <<>> \/ nl = 0 THEN Starved(eof)
        ELSE IF buf[1] = "*"
        THEN IF ~AtoiOk(Tail(line)) THEN Parsed("error", <<>>, <<>>)
             ELSE IF ToInt(Atoi(Tail(line))) < 0 THEN Parsed("panic", <<>>, <<>>)
             ELSE ReadBulks(after, eof, ToInt(Atoi(Tail(line))), <<>>)
        ELSE IF line = <<>> THEN Parsed("cmd", <<>>, after)
        ELSE Parsed("cmd", Tokens(line, 1, FALSE, <<>>, <<>>), after)

\* the client of c sends bytes; limit bounds what the clients send in all
Send(c, bytes, limit) ==
    /\ ~sock[c].eof
    /\ conn[c].pc \notin {"closed", "down"}
    /\ issued < limit
    /\ issued' = issued + 1
    /\ sock' = [sock EXCEPT ![c].buf = @ \o bytes]
    /\ http' = http
    /\ UNCHANGED <<cache, heap, now, conn, out, leaderboard>>

\* the client of c closes its end
Hangup(c) ==
    /\ ~sock[c].eof
    /\ conn[c].pc \notin {"closed", "down"}
    /\ sock' = [sock EXCEPT ![c].eof = TRUE]
    /\ http' = http
    /\ UNCHANGED <<cache, heap, now, conn, out, issued, leaderboard>>

\* a loop that ends at a command of no words
ReadNextEndsOnNothing(c, p) ==
    /\ p.res \in {"cmd", "error"}
    /\ sock' = [sock EXCEPT ![c].buf = p.rest]
    /\ http' = http
    /\ conn' = [conn EXCEPT ![c] =
                  IF p.res = "error" \/ p.args = <<>>
                  THEN [IdleConn EXCEPT !.pc = "closed"]
                  ELSE [IdleConn EXCEPT !.pc = HandlerOf(ToUpper(p.args[1])),
                                        !.req = p.args]]
    /\ UNCHANGED <<cache, heap, now, out, issued, leaderboard>>

\* lines 99-111: the loop of handleConnection takes the next command off:
\* an error ends the worker, nothing at all (nil, or no words) is passed
\* over, and a command goes to its handler
ReadNext(c, p) ==
    /\ p.res \in {"cmd", "error"}
    /\ sock' = [sock EXCEPT ![c].buf = p.rest]
    /\ http' = http
    /\ conn' = [conn EXCEPT ![c] =
                  IF p.res = "error" THEN [IdleConn EXCEPT !.pc = "closed"]
                  ELSE IF p.args = <<>> THEN IdleConn
                  ELSE [IdleConn EXCEPT !.pc = HandlerOf(ToUpper(p.args[1])),
                                        !.req = p.args]]
    /\ UNCHANGED <<cache, heap, now, out, issued, leaderboard>>

\* a panic in the worker of one connection, which nothing recovers, ends
\* the process: every worker with it, and the Store and the Leaderboard
ReadPanic(c, p) ==
    /\ p.res = "panic"
    /\ conn' = [d \in Conns |-> [IdleConn EXCEPT !.pc = "down"]]
    /\ cache' = [k \in Keys |-> NoEntry]
    /\ heap' = [r \in Refs |-> FreeCell]
    /\ leaderboard' = <<>>
    /\ sock' = [sock EXCEPT ![c].buf = p.rest]
    /\ http' = http
    /\ UNCHANGED <<now, out, issued>>

Read(c) ==
    /\ At(c, "idle")
    /\ \/ ReadNext(c, readCommand(sock[c].buf, sock[c].eof))
       \/ ReadPanic(c, readCommand(sock[c].buf, sock[c].eof))

----------------------------------------------------------------------------
(* The requests the clients send.  Each specification lets the clients     *)
(* pick from one menu; every worker runs the same code.                    *)

KeyK == <<"k">>
ValA == <<"a">>
ValB == <<"b">>
FieldF == <<"f">>

\* decimal text of a number, one character per element
PX500 == <<"5","0","0">>
EX1 == <<"1">>
EX0 == <<"0">>
PXMinus5 == <<"-","5">>
\* -288230376151710744 * 1000000 wraps to 1000000000 ns in int64
PXWraps ==
    <<"-","2","8","8","2","3","0","3","7","6","1","5","1","7","1","0","7","4","4">>
\* the lower-case spelling of a command name is accepted too
LowerSet == <<"s","e","t">>

SetExpiring == <<SET, KeyK, ValA, PX, PX500>>

\* SET and GET on one key that may hold a String or a List
StrMenu ==
    {<<SET, KeyK, ValA>>, <<LowerSet, KeyK, ValB>>, SetExpiring, <<GET, KeyK>>,
     <<LPUSH, KeyK, ValB>>}

NextStr ==
    \/ Tick
    \/ \E c \in Conns : \E r \in StrMenu : Recv(c, r)
    \/ \E c \in Conns : handleGet(c)
    \/ \E c \in Conns : handleSet(c)
    \/ \E c \in Conns : handleLPush(c)

SpecStr == Init /\ [][NextStr]_vars

\* SET with the expiration options, GET and TTL
ExpMenu ==
    {<<SET, KeyK, ValA, EX, EX1>>, SetExpiring, <<SET, KeyK, ValA, EX, EX0>>,
     <<SET, KeyK, ValA, PX, PXMinus5>>, <<SET, KeyK, ValA, PX, PXWraps>>,
     <<GET, KeyK>>, <<TTL, KeyK>>}

NextExp ==
    \/ Tick
    \/ \E c \in Conns : \E r \in ExpMenu : Recv(c, r)
    \/ \E c \in Conns : handleGet(c)
    \/ \E c \in Conns : handleSet(c)
    \/ \E c \in Conns : handleTTL(c)

SpecExp == Init /\ [][NextExp]_vars

\* the list commands
ListMenu ==
    {<<LPUSH, KeyK, ValA>>, <<LPUSH, KeyK, ValB>>, <<LPOP, KeyK>>,
     <<LRANGE, KeyK, <<"0">>, <<"-","1">>>>, SetExpiring}

NextList ==
    \/ Tick
    \/ \E c \in Conns : \E r \in ListMenu : Recv(c, r)
    \/ \E c \in Conns : handleSet(c)
    \/ \E c \in Conns : handleLPush(c)
    \/ \E c \in Conns : handleLPop(c)
    \/ \E c \in Conns : handleLRange(c)

SpecList == Init /\ [][NextList]_vars

\* the set commands
SetMenu ==
    {<<SADD, KeyK, ValA>>, <<SADD, KeyK, ValB>>, <<SADD, KeyK, FieldF, ValA>>, <<SREM, KeyK, ValA, ValB>>,
     <<SMEMBERS, KeyK>>, SetExpiring}

NextSet ==
    \/ Tick
    \/ \E c \in Conns : \E r \in SetMenu : Recv(c, r)
    \/ \E c \in Conns : handleSet(c)
    \/ \E c \in Conns : handleSAdd(c)
    \/ \E c \in Conns : handleSRem(c)
    \/ \E c \in Conns : handleSMembers(c)

SpecSet == Init /\ [][NextSet]_vars

\* every command that expects ValA kind, on ValA key of every kind
KindMenu ==
    {<<SET, KeyK, ValA>>, SetExpiring, <<GET, KeyK>>,
     <<LPUSH, KeyK, ValA>>, <<LPOP, KeyK>>, <<LRANGE, KeyK, <<"0">>, <<"-","1">>>>,
     <<SADD, KeyK, ValA, ValB>>, <<SMEMBERS, KeyK>>, <<SREM, KeyK, ValA, ValB>>,
     <<HSET, KeyK, FieldF, ValA>>, <<HGET, KeyK, FieldF>>, <<HDEL, KeyK, FieldF, ValA>>}

NextKind ==
    \/ Tick
    \/ \E c \in Conns : \E r \in KindMenu : Recv(c, r)
    \/ \E c \in Conns : handleGet(c)
    \/ \E c \in Conns : handleSet(c)
    \/ \E c \in Conns : handleLPush(c)
    \/ \E c \in Conns : handleLPop(c)
    \/ \E c \in Conns : handleLRange(c)
    \/ \E c \in Conns : handleSAdd(c)
    \/ \E c \in Conns : handleSMembers(c)
    \/ \E c \in Conns : handleSRem(c)
    \/ \E c \in Conns : handleHSet(c)
    \/ \E c \in Conns : handleHGet(c)
    \/ \E c \in Conns : handleHDel(c)

SpecKind == Init /\ [][NextKind]_vars

----------------------------------------------------------------------------
(* What the properties below are stated with.                              *)

\* every worker is back in readCommand
Quiet == \A c \in Conns : At(c, "idle")

\* the places of the transcripts, and the record at one of them
Slots == {s \in Conns \X (1..(MaxCmds + MaxSerial)) : s[2] <= Len(out[s[1]])}
Rec(s) == out[s[1]][s[2]]
Cmd(r) == ToUpper(r.req[1])

\* all that was ever requested is in the transcripts, and is among names
OnlyRan(names) ==
    /\ Quiet
    /\ Slots # {}
    /\ \A s \in Slots : Cmd(Rec(s)) \in names /\ Rec(s).req[2] = KeyK

\* what a key holds, seen as a set or as a list
SetAt(key) == IF cache[key].Type = SetType THEN heap[cache[key].Ref].set ELSE {}
ListAt(key) == IF cache[key].Type = ListType THEN heap[cache[key].Ref].list ELSE <<>>

\* key holds an entry that has not expired
LiveAt(key) ==
    /\ cache[key] # NoEntry
    /\ cache[key].ExpireAt = 0 \/ now <= cache[key].ExpireAt

\* the kind a command works on
ExpectedKind(req) ==
    CASE ToUpper(req[1]) = GET -> StringType
      [] ToUpper(req[1]) \in {LPUSH, LPOP, LRANGE} -> ListType
      [] ToUpper(req[1]) \in {SADD, SMEMBERS, SREM} -> SetType
      [] ToUpper(req[1]) \in {HSET, HGET, HDEL} -> HashType
      [] OTHER -> "any"

\* the worker of c takes the step, and the step writes reply r
Steps(c) == conn'[c] # conn[c]
Replies(c, r) ==
    /\ Len(out'[c]) = Len(out[c]) + 1
    /\ out'[c][Len(out'[c])].rep = r

----------------------------------------------------------------------------
(* Concurrent writers of one key.                                          *)

\* C1: when SADD commands on one key, which was absent or a Set, have all
\* been answered, the Set at the key contains every member they named.
C1_NoLostMember ==
    OnlyRan({SADD}) =>
        \A s \in Slots : Members(Rec(s).req) \subseteq SetAt(KeyK)

\* C2: when one-element LPUSH commands on one key have all been answered,
\* the list holds each pushed element as often as it was pushed and the
\* replies are 1, 2, .., n, the lengths after each push of a serial order.
C2_SerialPushes ==
    OnlyRan({LPUSH}) =>
        LET n == Cardinality(Slots)
            list == ListAt(KeyK)
        IN  /\ Len(list) = n
            /\ \A v \in {ValA, ValB} :
                  Cardinality({i \in 1..Len(list) : list[i] = v})
                      = Cardinality({s \in Slots : Rec(s).req[3] = v})
            /\ {Rec(s).rep : s \in Slots} = {IntReply(i) : i \in 1..n}

\* C3: when one LPUSH of one element and any LPOP commands on the key have
\* all been answered, the LPOP replies that carry an element and the
\* elements still in the list are together the one element pushed.
C3_PopsConserve ==
    (OnlyRan({LPUSH, LPOP})
        /\ Cardinality({s \in Slots : Cmd(Rec(s)) = LPUSH}) = 1) =>
        Cardinality({s \in Slots : Cmd(Rec(s)) = LPOP /\ Rec(s).rep # NilBulk})
            + Len(ListAt(KeyK)) = 1

\* C5: no step of LPUSH, LPOP, SADD, SREM, HSET or HDEL changes what its key
\* holds while the key holds a live entry of another kind.
C5_WritersKeepOtherKinds ==
    [][\A c \in Conns :
         (/\ ~At(c, "idle")
          /\ Steps(c)
          /\ Cmd(conn[c]) \in {LPUSH, LPOP, SADD, SREM, HSET, HDEL}
          /\ LiveAt(KeyOf(c))
          /\ cache[KeyOf(c)].Type # ExpectedKind(conn[c].req))
         => cache'[KeyOf(c)] = cache[KeyOf(c)]]_vars

----------------------------------------------------------------------------
(* Kinds.                                                                  *)

\* what the keys hold: the entries, with the containers they point to
Contents ==
    [key \in Keys |->
        [entry |-> cache[key],
         cell |-> IF cache[key].Ref = 0 THEN FreeCell ELSE heap[cache[key].Ref]]]

\* where a command that expects a kind loads the entry, and where it tests it
LoadLabels ==
    {"get", "lpush", "lpop", "lrange", "sadd", "smembers", "srem",
     "hset", "hget", "hdel"}
CheckLabels == {l \o "_check" : l \in LoadLabels}

\* the entry a worker has loaded has not expired
LiveEntry(e) == e # NoEntry /\ (e.ExpireAt = 0 \/ now <= e.ExpireAt)

\* nobody but c has ever sent a request
Alone(c) == \A d \in Conns \ {c} : At(d, "idle") /\ out[d] = <<>>

\* a SET without EX or PX
PlainSet(req) == ToUpper(req[1]) = SET /\ Len(req) = 3

\* C4: a command that expects one kind and finds a live entry of another
\* replies WRONGTYPE, and neither its lookup nor its test changes what any
\* key holds; SET k v, LPUSH k x, GET k sent by the only client are answered
\* +OK, WRONGTYPE, v.
C4_WrongTypeLeavesEntry ==
    /\ [][\A c \in Conns :
            /\ (Steps(c) /\ conn[c].pc \in LoadLabels) => Contents' = Contents
            /\ (/\ Steps(c)
                /\ conn[c].pc \in CheckLabels
                /\ LiveEntry(conn[c].ent)
                /\ conn[c].ent.Type # ExpectedKind(conn[c].req))
               => Replies(c, WrongType) /\ Contents' = Contents]_vars
    /\ [](\A c \in Conns : \A i \in 1..(MaxCmds - 2) :
            (/\ Alone(c)
             /\ Len(out[c]) >= i + 2
             /\ PlainSet(out[c][i].req)
             /\ Cmd(out[c][i + 1]) = LPUSH
             /\ Cmd(out[c][i + 2]) = GET)
            => /\ out[c][i].rep = StatusOK
               /\ out[c][i + 1].rep = WrongType
               /\ out[c][i + 2].rep = BulkReply(out[c][i].req[3]))

\* the only client has been answered +OK, WRONGTYPE and the value to SET,
\* LPUSH and GET
C4_Reached ==
    /\ Alone("c1")
    /\ Len(out["c1"]) = 3
    /\ PlainSet(out["c1"][1].req)
    /\ Cmd(out["c1"][2]) = LPUSH /\ out["c1"][2].rep = WrongType
    /\ Cmd(out["c1"][3]) = GET /\ out["c1"][3].rep = BulkReply(ValA)

\* C10: SET never tests the kind of what the key holds: its first step goes
\* on to the store whatever is there, and its store replies +OK and leaves
\* at the key a String with the value of this SET and the expiration of this
\* SET (none, or for PX 500 a clock reading taken during the SET plus 500).
C10_SetOverAnyKind ==
    [][\A c \in Conns :
         /\ (Steps(c) /\ At(c, "set"))
            => conn'[c].pc = "set_store" /\ Contents' = Contents
         /\ (Steps(c) /\ At(c, "set_store"))
            => /\ Replies(c, StatusOK)
               /\ cache'[KeyOf(c)].Type = StringType
               /\ cache'[KeyOf(c)].Str = conn[c].req[3]
               /\ IF PlainSet(conn[c].req) THEN cache'[KeyOf(c)].ExpireAt = 0
                  ELSE cache'[KeyOf(c)].ExpireAt - 500 \in 0..now]_vars

\* a key that held a Hash holds the String of a SET with PX
C10_Reached ==
    /\ Alone("c1")
    /\ Len(out["c1"]) = 2
    /\ Cmd(out["c1"][1]) = HSET /\ out["c1"][1].rep = IntReply(1)
    /\ out["c1"][2].req = SetExpiring /\ out["c1"][2].rep = StatusOK
    /\ cache[KeyK].Type = StringType
    /\ cache[KeyK].ExpireAt >= 500

\* C6: the store of a SET without EX or PX replies +OK and leaves at the key
\* the String v with no expiration, whatever was there; a GET that finds
\* that entry replies v; and SET k v, GET k sent one after the other by the
\* only client are answered +OK and v.
C6_SetThenGet ==
    /\ [][\A c \in Conns :
            (Steps(c) /\ At(c, "set_store") /\ PlainSet(conn[c].req))
            => /\ Replies(c, StatusOK)
               /\ cache'[KeyOf(c)]
                    = Entry(StringType, conn[c].req[3], 0, 0)]_vars
    /\ [](\A s \in Slots :
            (/\ Cmd(Rec(s)) = GET
             /\ Rec(s).saw.Type = StringType
             /\ Rec(s).saw.ExpireAt = 0)
            => Rec(s).rep = BulkReply(Rec(s).saw.Str))
    /\ [](\A c \in Conns : \A i \in 1..(MaxCmds - 1) :
            (/\ Alone(c)
             /\ Len(out[c]) >= i + 1
             /\ PlainSet(out[c][i].req)
             /\ Cmd(out[c][i + 1]) = GET)
            => /\ out[c][i].rep = StatusOK
               /\ out[c][i + 1].rep = BulkReply(out[c][i].req[3]))

\* a key that held a List was SET, and the GET after it replied the value
C6_Reached ==
    /\ Alone("c1")
    /\ Len(out["c1"]) = 3
    /\ Cmd(out["c1"][1]) = LPUSH /\ out["c1"][1].rep = IntReply(1)
    /\ out["c1"][2].req = <<LowerSet, KeyK, ValB>>
    /\ Cmd(out["c1"][3]) = GET /\ out["c1"][3].rep = BulkReply(ValB)

----------------------------------------------------------------------------
(* Expiration.                                                             *)

\* e carries an expiration and the clock has passed it
Lapsed(e) == e.ExpireAt # 0 /\ now > e.ExpireAt

\* the worker of c goes to label without writing a reply
GoesTo(c, label) == conn'[c].pc = label /\ out' = out

\* C7: once the clock has passed the expiration of what a key holds, a GET
\* or TTL of the key finds the entry, removes it from the store and replies
\* nil or -2; a GET or TTL that finds the key absent replies nil or -2; and
\* the clock never goes back.
C7_ExpiredIsGone ==
    [][/\ now' >= now
       /\ \A c \in Conns :
            /\ (Steps(c) /\ At(c, "get") /\ Lapsed(cache[KeyOf(c)]))
               => GoesTo(c, "get_check") /\ conn'[c].ent = cache[KeyOf(c)]
            /\ (Steps(c) /\ At(c, "ttl") /\ Lapsed(cache[KeyOf(c)]))
               => GoesTo(c, "ttl_check") /\ conn'[c].ent = cache[KeyOf(c)]
            /\ (Steps(c) /\ At(c, "get_check") /\ Lapsed(conn[c].ent))
               => GoesTo(c, "get_delete") /\ conn'[c].ent = conn[c].ent
            /\ (Steps(c) /\ At(c, "ttl_check") /\ Lapsed(conn[c].ent))
               => GoesTo(c, "ttl_delete") /\ conn'[c].ent = conn[c].ent
            /\ (Steps(c) /\ At(c, "get_delete"))
               => Replies(c, NilBulk) /\ cache'[KeyOf(c)] = NoEntry
            /\ (Steps(c) /\ At(c, "ttl_delete"))
               => Replies(c, IntReply(-2)) /\ cache'[KeyOf(c)] = NoEntry
            /\ (Steps(c) /\ At(c, "get") /\ cache[KeyOf(c)] = NoEntry)
               => Replies(c, NilBulk) /\ cache' = cache
            /\ (Steps(c) /\ At(c, "ttl") /\ cache[KeyOf(c)] = NoEntry)
               => Replies(c, IntReply(-2)) /\ cache' = cache]_vars

\* after SET with EX 1 the only client got nil from a GET that found the
\* entry, which removed the key, and -2 from the TTL after it
C7_Reached ==
    /\ Alone("c1")
    /\ Len(out["c1"]) = 3
    /\ out["c1"][1].req = <<SET, KeyK, ValA, EX, EX1>>
    /\ Cmd(out["c1"][2]) = GET /\ out["c1"][2].rep = NilBulk
    /\ out["c1"][2].saw.ExpireAt = 1000
    /\ Cmd(out["c1"][3]) = TTL /\ out["c1"][3].rep = IntReply(-2)
    /\ out["c1"][3].saw = NoEntry
    /\ cache[KeyK] = NoEntry

\* C8: TTL replies -2 when the key is absent or what it finds has expired,
\* -1 when what it finds has no expiration, and otherwise the whole seconds
\* left at the clock reading of the reply, 0 when none is left; every reply
\* to TTL is an integer of at least -2.
C8_TtlReplies ==
    /\ [][\A c \in Conns :
            /\ (Steps(c) /\ At(c, "ttl") /\ cache[KeyOf(c)] = NoEntry)
               => Replies(c, IntReply(-2))
            /\ (Steps(c) /\ At(c, "ttl_check") /\ Lapsed(conn[c].ent))
               => GoesTo(c, "ttl_delete")
            /\ (Steps(c) /\ At(c, "ttl_delete"))
               => Replies(c, IntReply(-2))
            /\ (Steps(c) /\ At(c, "ttl_check") /\ conn[c].ent.ExpireAt = 0)
               => Replies(c, IntReply(-1))
            /\ (/\ Steps(c) /\ At(c, "ttl_check")
                /\ conn[c].ent.ExpireAt # 0 /\ ~Lapsed(conn[c].ent))
               => GoesTo(c, "ttl_remaining")
            /\ (Steps(c) /\ At(c, "ttl_remaining"))
               => Replies(c, IntReply(
                     IF conn[c].ent.ExpireAt > now
                     THEN (conn[c].ent.ExpireAt - now) \div 1000 ELSE 0))]_vars
    /\ [](\A s \in Slots : Cmd(Rec(s)) = TTL =>
            /\ Rec(s).rep.kind = "int"
            /\ Rec(s).rep.n >= -2
            /\ Rec(s).saw = NoEntry => Rec(s).rep.n = -2
            /\ (Rec(s).saw # NoEntry /\ Rec(s).saw.ExpireAt = 0)
               => Rec(s).rep.n = -1
            /\ Rec(s).saw.ExpireAt # 0 => Rec(s).rep.n # -1)

\* after SET with EX 1 the only client got 1 from TTL and, later, 0
C8_Reached ==
    /\ Alone("c1")
    /\ Len(out["c1"]) = 3
    /\ out["c1"][1].req = <<SET, KeyK, ValA, EX, EX1>>
    /\ Cmd(out["c1"][2]) = TTL /\ out["c1"][2].rep = IntReply(1)
    /\ Cmd(out["c1"][3]) = TTL /\ out["c1"][3].rep = IntReply(0)

\* the decimal text s is of an integer that is not positive
NotPositive(s) == s[1] = "-" \/ \A i \in 1..Len(s) : s[i] = "0"

\* C9: the store of a SET whose EX or PX value is an integer that is not
\* positive replies +OK and leaves at the key the String v with no
\* expiration.
C9_NoExpiryForNonPositive ==
    [][\A c \in Conns :
         (/\ Steps(c) /\ At(c, "set_store")
          /\ Len(conn[c].req) = 5
          /\ NotPositive(conn[c].req[5]))
         => /\ Replies(c, StatusOK)
            /\ cache'[KeyOf(c)] = Entry(StringType, conn[c].req[3], 0, 0)]_vars

----------------------------------------------------------------------------
(* DEL.                                                                    *)

KeyJ == <<"j">>

DelMenu ==
    {<<SET, KeyJ, ValA>>, SetExpiring, <<LPUSH, KeyK, ValA>>,
     <<DEL, KeyK, KeyJ>>, <<DEL, KeyK, KeyK>>, <<DEL, KeyJ>>}

NextDel ==
    \/ Tick
    \/ \E c \in Conns : \E r \in DelMenu : Recv(c, r)
    \/ \E c \in Conns : handleSet(c)
    \/ \E c \in Conns : handleLPush(c)
    \/ \E c \in Conns : handleDel(c)

SpecDel == Init /\ [][NextDel]_vars

\* the keys a request lists from its second word on
Listed(req) == {req[i] : i \in 2..Len(req)}

\* the position in the request of the key DEL visits next
Visiting(c) == IF conn[c].idx = 0 THEN 2 ELSE conn[c].idx

\* C11: DEL visits the listed keys in turn.  A key it finds absent is
\* passed over; a key it finds present is counted when the entry has not
\* expired, and is removed whatever the entry is; past the last key the
\* reply is the count.  When the only client has been answered, every key
\* it listed is absent and the count is at most the number of distinct keys
\* listed; DEL of a key just SET replies 1 however often it lists the key;
\* SET j a, LPUSH k a, DEL k j replies 2.
C11_DelRemovesAndCounts ==
    /\ [][\A c \in Conns :
            /\ (Steps(c) /\ At(c, "del") /\ Visiting(c) > Len(conn[c].req))
               => Replies(c, IntReply(conn[c].count)) /\ cache' = cache
            /\ (/\ Steps(c) /\ At(c, "del")
                /\ Visiting(c) <= Len(conn[c].req)
                /\ cache[conn[c].req[Visiting(c)]] = NoEntry)
               => /\ GoesTo(c, "del")
                  /\ conn'[c].idx = Visiting(c) + 1
                  /\ conn'[c].count = conn[c].count
                  /\ cache' = cache
            /\ (/\ Steps(c) /\ At(c, "del")
                /\ Visiting(c) <= Len(conn[c].req)
                /\ cache[conn[c].req[Visiting(c)]] # NoEntry)
               => /\ GoesTo(c, "del_check")
                  /\ conn'[c].idx = Visiting(c)
                  /\ conn'[c].ent = cache[conn[c].req[Visiting(c)]]
                  /\ conn'[c].count = conn[c].count
                  /\ cache' = cache
            /\ (Steps(c) /\ At(c, "del_check"))
               => /\ GoesTo(c, "del_delete")
                  /\ conn'[c].idx = conn[c].idx
                  /\ conn'[c].count
                       = conn[c].count + (IF Lapsed(conn[c].ent) THEN 0 ELSE 1)
                  /\ cache' = cache
            /\ (Steps(c) /\ At(c, "del_delete"))
               => /\ GoesTo(c, "del")
                  /\ conn'[c].idx = conn[c].idx + 1
                  /\ conn'[c].count = conn[c].count
                  /\ cache' = [cache EXCEPT ![conn[c].req[conn[c].idx]] = NoEntry]
         ]_vars
    /\ [](\A c \in Conns : \A i \in 1..MaxCmds :
            (Alone(c) /\ Len(out[c]) >= i /\ Cmd(out[c][i]) = DEL)
            => /\ out[c][i].rep.kind = "int"
               /\ out[c][i].rep.n <= Cardinality(Listed(out[c][i].req))
               /\ (At(c, "idle") /\ Len(out[c]) = i)
                  => \A key \in Listed(out[c][i].req) : cache[key] = NoEntry
               /\ (i > 1 /\ PlainSet(out[c][i - 1].req)
                         /\ Listed(out[c][i].req) = {out[c][i - 1].req[2]})
                  => out[c][i].rep = IntReply(1)
               /\ (/\ i = 3
                   /\ out[c][1].req = <<SET, KeyJ, ValA>>
                   /\ out[c][2].req = <<LPUSH, KeyK, ValA>>
                   /\ out[c][3].req = <<DEL, KeyK, KeyJ>>)
                  => out[c][i].rep = IntReply(2))

\* the only client has SET j, pushed to k and deleted both
C11_Reached ==
    /\ Alone("c1") /\ At("c1", "idle")
    /\ Len(out["c1"]) = 3
    /\ out["c1"][1].req = <<SET, KeyJ, ValA>>
    /\ out["c1"][2].req = <<LPUSH, KeyK, ValA>>
    /\ out["c1"][3].req = <<DEL, KeyK, KeyJ>>
    /\ out["c1"][3].rep = IntReply(2)
    /\ \A key \in Keys : cache[key] = NoEntry

----------------------------------------------------------------------------
(* Lists, one client.                                                      *)

PushABC == <<LPUSH, KeyK, ValA, ValB, <<"c">>>>
RangeAll == <<LRANGE, KeyK, <<"0">>, <<"-","1">>>>

OrderMenu ==
    {PushABC, <<LPUSH, KeyK, FieldF>>, <<LPOP, KeyK>>, RangeAll, SetExpiring}

NextOrder ==
    \/ Tick
    \/ \E r \in OrderMenu : RecvSerial(r)
    \/ \E c \in Conns : handleSet(c)
    \/ \E c \in Conns : handleLPush(c)
    \/ \E c \in Conns : handleLPop(c)
    \/ \E c \in Conns : handleLRange(c)

SpecOrder == Init /\ [][NextOrder]_vars

\* C12: LPUSH k v1 .. vm stores at k the list of v1, .., vm followed by
\* the list L it found (empty when it found the key absent or expired), and
\* replies m + length(L); L is what the key holds when LPUSH stores; LPUSH
\* k a b c that found nothing, then LRANGE k 0 -1, is answered a, b, c.
C12_PushInFront ==
    /\ [][\A c \in Conns :
            (Steps(c) /\ At(c, "lpush_store") /\ KeyOf(c) = KeyK)
            => LET m == Len(conn[c].req) - 2
                   L == conn[c].list
               IN  /\ Replies(c, IntReply(m + Len(L)))
                   /\ cache'[KeyK].Type = ListType
                   /\ Len(ListAt(KeyK)') = m + Len(L)
                   /\ \A i \in 1..m : ListAt(KeyK)'[i] = conn[c].req[i + 2]
                   /\ \A i \in 1..Len(L) : ListAt(KeyK)'[m + i] = L[i]]_vars
    /\ [](\A c \in Conns : At(c, "lpush_store") =>
            /\ conn[c].list = ListAt(KeyK)
            /\ ~LiveAt(KeyK) \/ cache[KeyK].Type = ListType)
    /\ [](\A c \in Conns : \A i \in 1..(MaxSerial - 1) :
            (/\ Len(out[c]) >= i + 1
             /\ out[c][i].req = PushABC /\ out[c][i].rep = IntReply(3)
             /\ out[c][i + 1].req = RangeAll)
            => out[c][i + 1].rep = ArrayReply(3, <<ValA, ValB, <<"c">>>>))

\* a, b, c were pushed in front of f
C12_Reached ==
    /\ Len(out["c1"]) = 3
    /\ out["c1"][1].req = <<LPUSH, KeyK, FieldF>>
    /\ out["c1"][2].req = PushABC /\ out["c1"][2].rep = IntReply(4)
    /\ out["c1"][3].req = RangeAll
    /\ out["c1"][3].rep = ArrayReply(4, <<ValA, ValB, <<"c">>, FieldF>>)

\* C13: LPOP that finds a live list takes its first element and the rest
\* in the same order; when nothing is left it removes the key, otherwise it
\* leaves the rest at the key; it replies the element.  LPOP that finds the
\* key absent or expired replies nil and leaves the key absent.  LPUSH k a
\* b c on nothing, then LPOP four times, is answered a, b, c, nil.
C13_PopFromFront ==
    /\ [][\A c \in Conns :
            /\ (/\ Steps(c) /\ At(c, "lpop_check")
                /\ LiveEntry(conn[c].ent) /\ conn[c].ent.Type = ListType
                /\ ListAt(KeyK) # <<>>)
               => /\ GoesTo(c, IF Len(ListAt(KeyK)) = 1 THEN "lpop_remove"
                               ELSE "lpop_write")
                  /\ conn'[c].str = ListAt(KeyK)[1]
                  /\ Len(conn'[c].list) = Len(ListAt(KeyK)) - 1
                  /\ \A i \in 1..Len(conn'[c].list) :
                        conn'[c].list[i] = ListAt(KeyK)[i + 1]
                  /\ Contents' = Contents
            /\ (Steps(c) /\ At(c, "lpop_remove"))
               => /\ Replies(c, BulkReply(conn[c].str))
                  /\ cache'[KeyK] = NoEntry
            /\ (Steps(c) /\ At(c, "lpop_write"))
               => /\ GoesTo(c, "lpop_store")
                  /\ ListAt(KeyK)' = conn[c].list
            /\ (Steps(c) /\ At(c, "lpop_store"))
               => /\ Replies(c, BulkReply(conn[c].str))
                  /\ cache'[KeyK].Type = ListType
                  /\ ListAt(KeyK)' = conn[c].list
            /\ (Steps(c) /\ At(c, "lpop") /\ cache[KeyK] = NoEntry)
               => Replies(c, NilBulk) /\ cache' = cache
            /\ (Steps(c) /\ At(c, "lpop_check") /\ Lapsed(conn[c].ent))
               => GoesTo(c, "lpop_delete")
            /\ (Steps(c) /\ At(c, "lpop_delete"))
               => Replies(c, NilBulk) /\ cache'[KeyK] = NoEntry]_vars
    /\ [](\A c \in Conns : \A i \in 1..(MaxSerial - 4) : \A j \in 1..4 :
            (/\ Len(out[c]) >= i + j
             /\ out[c][i].req = PushABC /\ out[c][i].rep = IntReply(3)
             /\ \A h \in 1..j : Cmd(out[c][i + h]) = LPOP)
            => out[c][i + j].rep
                 = <<BulkReply(ValA), BulkReply(ValB), BulkReply(<<"c">>),
                     NilBulk>>[j])

\* a, b, c were pushed and popped, and the key is gone
C13_Reached ==
    /\ Len(out["c1"]) = 5
    /\ out["c1"][1].req = PushABC /\ out["c1"][1].rep = IntReply(3)
    /\ \A h \in 2..5 : Cmd(out["c1"][h]) = LPOP
    /\ out["c1"][4].rep = BulkReply(<<"c">>)
    /\ out["c1"][5].rep = NilBulk
    /\ cache[KeyK] = NoEntry

----------------------------------------------------------------------------
(* LRANGE with every pair of indices.                                      *)

Indices == (0 - MaxIdx)..MaxIdx

RangeMenu ==
    {PushABC, <<LPUSH, KeyK, FieldF>>, SetExpiring}
    \cup {<<LRANGE, KeyK, Itoa(start), Itoa(stop)>> : start, stop \in Indices}

NextRange ==
    \/ Tick
    \/ \E r \in RangeMenu : Receive("c1", r, MaxRangeCmds)
    \/ \E c \in Conns : handleSet(c)
    \/ \E c \in Conns : handleLPush(c)
    \/ \E c \in Conns : handleLRange(c)

SpecRange == Init /\ [][NextRange]_vars

Larger(x, y) == IF x > y THEN x ELSE y
Smaller(x, y) == IF x < y THEN x ELSE y

\* the first and last position (from 0) that LRANGE start stop is to return
\* of a list of n elements: nothing when first > last
FirstPos(n, start) == Larger(0, IF start < 0 THEN n + start ELSE start)
LastPos(n, stop) == Smaller(n - 1, Larger(0, IF stop < 0 THEN n + stop ELSE stop))

\* the indices a client wrote as the decimal texts s and t
IndexOfText(s) == CHOOSE x \in Indices : Itoa(x) = s

\* C14: LRANGE k start stop that finds a live list of n elements replies
\* the elements at the positions from max(0, start') to min(n-1, max(0,
\* stop')) in list order, where a negative index x stands for x' = n + x,
\* and the empty array when there is no such position; the positions lie
\* in 0..n-1; neither step of LRANGE changes what any key holds.
C14_RangeRule ==
    [][\A c \in Conns :
         /\ (Steps(c) /\ At(c, "lrange")) => Contents' = Contents
         /\ (/\ Steps(c) /\ At(c, "lrange_check")
             /\ LiveEntry(conn[c].ent) /\ conn[c].ent.Type = ListType)
            => LET list == ListAt(KeyK)
                   n == Len(list)
                   first == FirstPos(n, IndexOfText(conn[c].req[3]))
                   last == LastPos(n, IndexOfText(conn[c].req[4]))
                   items == IF first > last THEN <<>>
                            ELSE [i \in 1..(last - first + 1) |-> list[first + i]]
               IN  /\ first > last \/ (0 <= first /\ last <= n - 1)
                   /\ Replies(c, ArrayReply(Len(items), items))
                   /\ Contents' = Contents]_vars

\* of a, b, c the range -2 .. 4 is b, c
C14_Reached ==
    /\ Len(out["c1"]) = 2
    /\ out["c1"][1].req = PushABC
    /\ out["c1"][2].req = <<LRANGE, KeyK, <<"-","2">>, <<"4">>>>
    /\ out["c1"][2].rep = ArrayReply(2, <<ValB, <<"c">>>>)

----------------------------------------------------------------------------
(* What one client, alone, is to be answered by the commands on Sets and   *)
(* Hashes, and what the key is to hold afterwards: the contract of these   *)
(* commands, applied to the transcript of the client.                      *)

\* what key k is to hold: nothing, a String, a Set or a Hash
Holds(kind, set, hash) == [kind |-> kind, set |-> set, hash |-> hash]
Nothing == Holds("none", {}, <<>>)

\* a container that was emptied is not kept
Kept(h) ==
    IF h.kind = SetType /\ h.set = {} THEN Nothing
    ELSE IF h.kind = HashType /\ DOMAIN h.hash = {} THEN Nothing
    ELSE h

\* the members or fields a request names from its third word on
Named(req) == {req[i] : i \in 3..Len(req)}

Without(hash, fields) ==
    IF DOMAIN hash \subseteq fields THEN <<>>
    ELSE [x \in (DOMAIN hash) \ fields |-> hash[x]]

With(hash, field, value) ==
    [x \in (DOMAIN hash) \cup {field} |-> IF x = field THEN value ELSE hash[x]]

\* the reply r.rep to the request r.req, of the command name, is right
\* when the key holds h
Answered(h, name, r) ==
    CASE name = SET -> r.rep = StatusOK
      [] name = SADD ->
            r.rep = IntReply(Cardinality(Named(r.req) \ h.set))
      [] name = SREM ->
            r.rep = IntReply(Cardinality(Named(r.req) \cap h.set))
      [] name = SMEMBERS ->
            /\ r.rep.kind = "array"
            /\ r.rep.n = Cardinality(h.set)
            /\ Len(r.rep.items) = r.rep.n
            /\ {r.rep.items[i] : i \in 1..Len(r.rep.items)} = h.set
      [] name = HSET ->
            r.rep = IntReply(IF r.req[3] \in DOMAIN h.hash THEN 0 ELSE 1)
      [] name = HGET ->
            r.rep = IF r.req[3] \in DOMAIN h.hash
                    THEN BulkReply(h.hash[r.req[3]]) ELSE NilBulk
      [] name = HDEL ->
            r.rep = IntReply(Cardinality(Named(r.req) \cap DOMAIN h.hash))

\* what the key holds after the request r.req when it held h
Applied(h, name, r) ==
    CASE name = SET -> Holds(StringType, {}, <<>>)
      [] name = SADD -> Holds(SetType, h.set \cup Named(r.req), <<>>)
      [] name = SREM -> Kept([h EXCEPT !.set = @ \ Named(r.req)])
      [] name = HSET ->
            Holds(HashType, {}, With(h.hash, r.req[3], r.req[4]))
      [] name = HDEL -> Kept([h EXCEPT !.hash = Without(@, Named(r.req))])
      [] OTHER -> h

\* A String in these transcripts carries an expiration; the transcript
\* does not tell the time, so that a command on a String is either
\* answered WRONGTYPE or finds the String expired, which is as nothing.
Found0(h, r) ==
    IF h.kind = StringType /\ r.rep # WrongType THEN Nothing ELSE h

\* the commands on Sets are refused on a Hash, those on Hashes on a Set,
\* and both on a String
Refused(h, name, r) ==
    /\ name # SET
    /\ Found0(h, r).kind
         \notin {"none", IF name \in {SADD, SREM, SMEMBERS}
                         THEN SetType ELSE HashType}

\* what the key holds after the request r.req, answered r.rep, when it
\* held h
After(h, r) ==
    CHOOSE x \in {IF Refused(h, name, r) THEN Found0(h, r)
                  ELSE Applied(Found0(h, r), name, r) : name \in {Cmd(r)}} :
        TRUE

RECURSIVE HeldAfter(_, _)
HeldAfter(tr, i) ==
    IF i = 0 THEN Nothing
    ELSE CHOOSE x \in {After(h, tr[i]) : h \in {HeldAfter(tr, i - 1)}} : TRUE

\* what c1 found at its i-th request
FoundAt(i) == Found0(HeldAfter(out["c1"], i - 1), out["c1"][i])

\* the i-th reply to c1 is the one the contract gives
RightReply(i, name) ==
    \A h \in {HeldAfter(out["c1"], i - 1)} :
        LET r == out["c1"][i]
        IN  IF Refused(h, name, r) THEN r.rep = WrongType
            ELSE Answered(Found0(h, r), name, r)

\* after the i-th reply, as long as c1 sends nothing more, the key holds
\* what the contract gives
RightStore(i) ==
    (At("c1", "idle") /\ Len(out["c1"]) = i) =>
        \A h \in {HeldAfter(out["c1"], i)} :
            CASE h.kind = "none" -> cache[KeyK] = NoEntry
              [] h.kind = StringType -> cache[KeyK].Type = StringType
              [] h.kind = SetType ->
                    cache[KeyK].Type = SetType /\ SetAt(KeyK) = h.set
              [] h.kind = HashType ->
                    /\ cache[KeyK].Type = HashType
                    /\ heap[cache[KeyK].Ref].hash = h.hash

\* the i-th request of c1, of the command name, was answered as the
\* contract gives and left the store it gives
Contract(i, name) == RightReply(i, name) /\ RightStore(i)

----------------------------------------------------------------------------
(* One client alone on Sets.                                               *)

SetsMenu ==
    {<<SADD, KeyK, ValA, ValB, ValA>>, <<SADD, KeyK, FieldF>>,
     <<SREM, KeyK, ValA, ValB, ValA>>, SetExpiring}

NextSets ==
    \/ Tick
    \/ \E r \in SetsMenu : RecvSerial(r)
    \/ \E c \in Conns : handleSet(c)
    \/ \E c \in Conns : handleSAdd(c)
    \/ \E c \in Conns : handleSRem(c)

SpecSets == Init /\ [][NextSets]_vars

\* C15: to one client alone, SADD k m1 .. mn replies the number of
\* distinct listed members that were not in the set before the call (a
\* member repeated in the call, or already in the set, counts for nothing)
\* and leaves at k the union of the set and the listed members; hence the
\* same SADD repeated replies 0 and leaves the set as it was.
C15_AddCountsNewMembers ==
    \A i \in 1..Len(out["c1"]) : \A name \in {Cmd(out["c1"][i])} :
        name = SADD =>
            /\ Contract(i, name)
            /\ (/\ i > 1
                /\ out["c1"][i].req = out["c1"][i - 1].req
                /\ out["c1"][i - 1].rep # WrongType)
               => /\ out["c1"][i].rep = IntReply(0)
                  /\ HeldAfter(out["c1"], i) = HeldAfter(out["c1"], i - 1)

\* SADD k a b a on no set was answered 2, and repeated was answered 0; a
\* later SADD k f was answered 1 and left the three members
C15_Reached ==
    /\ At("c1", "idle")
    /\ Len(out["c1"]) = 3
    /\ out["c1"][1] = [req |-> <<SADD, KeyK, ValA, ValB, ValA>>,
                       rep |-> IntReply(2), saw |-> out["c1"][1].saw]
    /\ out["c1"][2].req = out["c1"][1].req
    /\ out["c1"][2].rep = IntReply(0)
    /\ out["c1"][3].req = <<SADD, KeyK, FieldF>>
    /\ out["c1"][3].rep = IntReply(1)
    /\ SetAt(KeyK) = {ValA, ValB, FieldF}

----------------------------------------------------------------------------
(* One client alone removing from Sets and Hashes.                         *)

RemoveMenu ==
    {<<SADD, KeyK, ValA, ValB, FieldF>>, <<SREM, KeyK, ValA, ValB, ValA>>,
     <<SREM, KeyK, FieldF>>,
     <<HSET, KeyK, FieldF, ValA>>, <<HSET, KeyK, ValA, ValB>>,
     <<HDEL, KeyK, FieldF, ValB, FieldF>>, SetExpiring}

NextRemove ==
    \/ Tick
    \/ \E r \in RemoveMenu : RecvSerial(r)
    \/ \E c \in Conns : handleSet(c)
    \/ \E c \in Conns : handleSAdd(c)
    \/ \E c \in Conns : handleSRem(c)
    \/ \E c \in Conns : handleHSet(c)
    \/ \E c \in Conns : handleHDel(c)

SpecRemove == Init /\ [][NextRemove]_vars

\* C16: to one client alone, SREM k m1 .. mn and HDEL k f1 .. fn reply the
\* number of distinct listed members, or fields, that were in the Set, or
\* Hash, before the call, and remove exactly those; when k is absent or
\* expired they reply 0 and create nothing.
C16_RemoveCountsPresent ==
    \A i \in 1..Len(out["c1"]) : \A name \in {Cmd(out["c1"][i])} :
        name \in {SREM, HDEL} =>
            /\ Contract(i, name)
            /\ FoundAt(i) = Nothing
               => /\ out["c1"][i].rep = IntReply(0)
                  /\ (At("c1", "idle") /\ Len(out["c1"]) = i)
                       => cache[KeyK] = NoEntry

\* HDEL k f b f of a Hash of f alone was answered 1 and removed the key;
\* SREM k a b a of the absent key was answered 0 and created nothing; and
\* of a Set of a, b and f it was answered 2 and left f
C16_Reached ==
    /\ At("c1", "idle")
    /\ Len(out["c1"]) = 5
    /\ out["c1"][1].req = <<HSET, KeyK, FieldF, ValA>>
    /\ out["c1"][2].req = <<HDEL, KeyK, FieldF, ValB, FieldF>>
    /\ out["c1"][2].rep = IntReply(1)
    /\ out["c1"][3].req = <<SREM, KeyK, ValA, ValB, ValA>>
    /\ out["c1"][3].rep = IntReply(0)
    /\ out["c1"][4].req = <<SADD, KeyK, ValA, ValB, FieldF>>
    /\ out["c1"][4].rep = IntReply(3)
    /\ out["c1"][5].req = <<SREM, KeyK, ValA, ValB, ValA>>
    /\ out["c1"][5].rep = IntReply(2)
    /\ SetAt(KeyK) = {FieldF}

----------------------------------------------------------------------------
(* One client alone on Hashes.                                             *)

HashMenu ==
    {<<HSET, KeyK, FieldF, ValA>>, <<HSET, KeyK, FieldF, ValB>>,
     <<HSET, KeyK, ValA, ValA>>, <<HGET, KeyK, FieldF>>,
     <<HGET, KeyK, ValA>>, SetExpiring}

NextHash ==
    \/ Tick
    \/ \E r \in HashMenu : RecvSerial(r)
    \/ \E c \in Conns : handleSet(c)
    \/ \E c \in Conns : handleHSet(c)
    \/ \E c \in Conns : handleHGet(c)

SpecHash == Init /\ [][NextHash]_vars

\* C17: to one client alone, HSET k f v replies 1 when the field f did
\* not exist (the key being absent or expired included) and 0 when it
\* did; afterwards HGET k f gives v and every other field has the value it
\* had; HGET of an absent key or of an absent field gives nil.
C17_HSetThenHGet ==
    \A i \in 1..Len(out["c1"]) : \A name \in {Cmd(out["c1"][i])} :
        /\ name \in {HSET, HGET} => Contract(i, name)
        /\ (/\ name = HGET
            /\ i > 1
            /\ out["c1"][i].req[3] = out["c1"][i - 1].req[3]
            /\ out["c1"][i - 1].rep # WrongType
            /\ Cmd(out["c1"][i - 1]) = HSET)
           => out["c1"][i].rep = BulkReply(out["c1"][i - 1].req[4])
        /\ (/\ name = HGET
            /\ out["c1"][i].rep # WrongType
            /\ \A h \in {FoundAt(i)} :
                    h = Nothing \/ out["c1"][i].req[3] \notin DOMAIN h.hash)
           => out["c1"][i].rep = NilBulk

\* f was set to a (answered 1), then to b (answered 0), the field a was
\* set (answered 1); HGET k f then gave b and HGET k a gave a
C17_Reached ==
    /\ At("c1", "idle")
    /\ Len(out["c1"]) = 5
    /\ out["c1"][1].req = <<HSET, KeyK, FieldF, ValA>>
    /\ out["c1"][1].rep = IntReply(1)
    /\ out["c1"][2].req = <<HSET, KeyK, FieldF, ValB>>
    /\ out["c1"][2].rep = IntReply(0)
    /\ out["c1"][3].req = <<HSET, KeyK, ValA, ValA>>
    /\ out["c1"][3].rep = IntReply(1)
    /\ out["c1"][4].req = <<HGET, KeyK, FieldF>>
    /\ out["c1"][4].rep = BulkReply(ValB)
    /\ out["c1"][5].req = <<HGET, KeyK, ValA>>
    /\ out["c1"][5].rep = BulkReply(ValA)

----------------------------------------------------------------------------
(* Empty containers.                                                       *)

\* the number of elements of the List, Set or Hash that key maps to
Size(key) ==
    CASE cache[key].Type = ListType -> Len(heap[cache[key].Ref].list)
      [] cache[key].Type = SetType -> Cardinality(heap[cache[key].Ref].set)
      [] cache[key].Type = HashType ->
            Cardinality(DOMAIN heap[cache[key].Ref].hash)

\* C18: no key maps to a List, Set or Hash of zero elements; stated of the
\* states where every command sent has been answered, which leaves out the
\* states between the removal of the last element and the removal of the
\* key.
C18_NoEmptyContainer ==
    Quiet =>
        \A key \in Keys :
            (cache[key] # NoEntry
             /\ cache[key].Type \in {ListType, SetType, HashType})
            => Size(key) > 0

----------------------------------------------------------------------------
(* The leaderboard under two clients.                                      *)

Dave == <<"d","a","v","e">>
Eve == <<"e","v","e">>
Amy == <<"a","m","y">>
Score999999 == <<"9","9","9","9","9","9">>
Score10000 == <<"1","0","0","0","0">>
Score7 == <<"7">>
\* an integer that an int of 64 bits does not hold
Score20Digits ==
    <<"9","9","9","9","9","9","9","9","9","9",
      "9","9","9","9","9","9","9","9","9","9">>

LbMenu ==
    {<<LBADD, Dave, Score999999>>, <<LBADD, Eve, PXMinus5>>,
     <<LBADD, Dave, Score7>>, <<LBADD, Dave, Score20Digits>>}

NextLb ==
    \/ Tick
    \/ \E c \in Conns : \E r \in LbMenu : Recv(c, r)
    \/ \E c \in Conns : handleLBAdd(c)

SpecLb == Init /\ [][NextLb]_vars

\* s is a decimal integer: an optional sign, then digits
IsInteger(s) ==
    /\ AtoiDigits(s) # <<>>
    /\ \A i \in 1..Len(AtoiDigits(s)) : IsDigit(AtoiDigits(s)[i])

\* s is an integer that an int, of 64 bits, holds for sure: one of at most
\* eighteen digits after the leading zeros
FitsInt(s) == IsInteger(s) /\ Len(Significant(AtoiDigits(s))) <= 18

\* the value of at most five digits
RECURSIVE DecimalValue(_, _)
DecimalValue(d, i) ==
    IF i = 0 THEN 0
    ELSE 10 * DecimalValue(d, i - 1) + IndexOf(d[i], DigitChars) - 1

\* min(max(s, 0), 10000) of the decimal integer s
DecimalClamp(s) ==
    LET d == Significant(AtoiDigits(s))
    IN  IF s[1] = "-" THEN 0
        ELSE IF DigitsLeq(d, Score10000) THEN DecimalValue(d, Len(d))
        ELSE 10000

----------------------------------------------------------------------------
(* The leaderboard under one client.                                       *)

LbTopMenu ==
    {<<LBADD, Dave, Score999999>>, <<LBADD, Eve, PXMinus5>>,
     <<LBADD, Amy, Score10000>>, <<LBTOP, <<"1">>>>, <<LBTOP, <<"2">>>>}

NextLbTop ==
    \/ Tick
    \/ \E r \in LbTopMenu : RecvSerial(r)
    \/ \E c \in Conns : handleLBAdd(c)
    \/ \E c \in Conns : handleLBTop(c)

SpecLbTop == Init /\ [][NextLbTop]_vars

\* user u ranks before user v: its score is larger, or the scores are equal
\* and its name is the smaller
RanksBefore(u, v) ==
    \/ leaderboard[u] > leaderboard[v]
    \/ leaderboard[u] = leaderboard[v] /\ StringLess(u, v)

\* the users that the items of an array reply list
ListedUsers(items) == {items[2 * i - 1] : i \in 1..(Len(items) \div 2)}

\* C20: to one client alone, LBTOP n with n >= 1 (an n that an int holds)
\* replies an array of 2 * min(n, count) bulk strings: min(n, count) users
\* of the leaderboard, each followed by its score in decimal, a user that
\* ranks before another coming first (the score descending and, of equal
\* scores, the name ascending); no user left out ranks before a listed one.
C20_TopRanked ==
    /\ [][(/\ Steps("c1")
           /\ At("c1", "lbtop")
           /\ Len(conn["c1"].req) = 2
           /\ FitsInt(conn["c1"].req[2])
           /\ conn["c1"].req[2][1] # "-"
           /\ Significant(AtoiDigits(conn["c1"].req[2])) # <<>>)
          => conn'["c1"].pc = "lbtop_range"]_vars
    /\ [][(/\ Steps("c1")
           /\ At("c1", "lbtop_range")
           /\ Len(out'["c1"]) = Len(out["c1"]) + 1)
          => LET rep == out'["c1"][Len(out'["c1"])].rep
                 n == ToInt(Atoi(conn["c1"].req[2]))
                 count == Cardinality(DOMAIN leaderboard)
                 k == IF n < count THEN n ELSE count
             IN  /\ n >= 1
                 /\ rep.kind = "array"
                 /\ rep.n = 2 * k
                 /\ Len(rep.items) = 2 * k
                 /\ \A i \in 1..k :
                       /\ rep.items[2 * i - 1] \in DOMAIN leaderboard
                       /\ rep.items[2 * i]
                            = Itoa(leaderboard[rep.items[2 * i - 1]])
                 /\ \A i \in 1..(k - 1) :
                       RanksBefore(rep.items[2 * i - 1], rep.items[2 * i + 1])
                 /\ \A u \in (DOMAIN leaderboard) \ ListedUsers(rep.items) :
                       \A v \in ListedUsers(rep.items) : ~RanksBefore(u, v)]_vars

\* dave has 10000, eve 0 and amy 10000: LBTOP 2 listed amy, then dave, and
\* LBTOP 1 amy alone
C20_Reached ==
    /\ At("c1", "idle")
    /\ Len(out["c1"]) = 5
    /\ out["c1"][1].req = <<LBADD, Dave, Score999999>>
    /\ out["c1"][2].req = <<LBADD, Eve, PXMinus5>>
    /\ out["c1"][3].req = <<LBADD, Amy, Score10000>>
    /\ out["c1"][4].req = <<LBTOP, <<"2">>>>
    /\ out["c1"][4].rep = ArrayReply(4, <<Amy, Score10000, Dave, Score10000>>)
    /\ out["c1"][5].req = <<LBTOP, <<"1">>>>
    /\ out["c1"][5].rep = ArrayReply(2, <<Amy, Score10000>>)

----------------------------------------------------------------------------
(* Arguments of LBADD and LBTOP that are not integers, or not positive.    *)

LbErrMenu ==
    {<<LBADD, Dave, Score7>>, <<LBADD, Dave, <<"7","x">>>>,
     <<LBADD, Eve, <<>>>>, <<LBTOP, <<"x">>>>, <<LBTOP, <<"0">>>>,
     <<LBTOP, PXMinus5>>, <<LBTOP, <<"1">>>>}

NextLbErr ==
    \/ Tick
    \/ \E c \in Conns : \E r \in LbErrMenu : Recv(c, r)
    \/ \E c \in Conns : handleLBAdd(c)
    \/ \E c \in Conns : handleLBTop(c)

SpecLbErr == Init /\ [][NextLbErr]_vars

\* s is an integer that is zero or less
NotAbove0(s) ==
    IsInteger(s) /\ (s[1] = "-" \/ Significant(AtoiDigits(s)) = <<>>)

\* C21: LBADD with a score that is not an integer replies an error and
\* leaves the leaderboard as it is; LBTOP with an argument that is not an
\* integer, or is zero or less, replies an error; after either the worker
\* of the connection reads the next command.
C21_BadNumbersRefused ==
    [][\A c \in Conns :
        /\ (/\ Steps(c)
            /\ At(c, "lbadd")
            /\ Len(conn[c].req) = 3
            /\ ~IsInteger(conn[c].req[3]))
           => /\ Replies(c, ScoreNotInteger)
              /\ leaderboard' = leaderboard
              /\ conn'[c].pc = "idle"
        /\ (/\ Steps(c)
            /\ At(c, "lbtop")
            /\ Len(conn[c].req) = 2
            /\ ~IsInteger(conn[c].req[2]) \/ NotAbove0(conn[c].req[2]))
           => /\ Replies(c, NotPositiveInteger)
              /\ leaderboard' = leaderboard
              /\ conn'[c].pc = "idle"]_vars

\* LBADD dave 7 was answered +OK, LBADD dave 7x on the same connection an
\* error, and LBTOP 1 after it still lists dave with 7
C21_Reached ==
    /\ Quiet
    /\ Len(out["c1"]) = 3
    /\ out["c1"][1].req = <<LBADD, Dave, Score7>>
    /\ out["c1"][1].rep = StatusOK
    /\ out["c1"][2].req = <<LBADD, Dave, <<"7","x">>>>
    /\ out["c1"][2].rep = ScoreNotInteger
    /\ out["c1"][3].req = <<LBTOP, <<"1">>>>
    /\ out["c1"][3].rep = ArrayReply(2, <<Dave, Score7>>)

----------------------------------------------------------------------------
(* Commands with a wrong number of arguments.  The clients send nothing    *)
(* else, but for the SET and the LBADD that fill the Store and the         *)
(* Leaderboard, so that of every other handler the first step alone runs.  *)

ArityMenu ==
    {SetExpiring, <<LBADD, Dave, Score7>>,
     <<GET>>, <<GET, KeyK, KeyJ>>, <<SET, KeyK>>, <<DEL>>, <<TTL>>,
     <<LPUSH, KeyK>>, <<LPOP, KeyK, KeyJ>>, <<LRANGE, KeyK, <<"0">>>>,
     <<SADD, KeyK>>, <<SMEMBERS>>, <<SREM, KeyK>>,
     <<HSET, KeyK, FieldF, ValA, ValB>>, <<HGET, KeyK>>, <<HDEL, KeyK>>,
     <<LBADD, Dave>>, <<LBTOP>>, <<LBTOP, <<"1">>, <<"2">>>>}

NextArity ==
    \/ Tick
    \/ \E c \in Conns : \E r \in ArityMenu : Recv(c, r)
    \/ \E c \in Conns : handleSet(c)
    \/ \E c \in Conns : handleLBAdd(c)
    \/ \E c \in Conns : GetLoad(c)
    \/ \E c \in Conns : DelLoad(c)
    \/ \E c \in Conns : TtlLoad(c)
    \/ \E c \in Conns : LPushLoad(c)
    \/ \E c \in Conns : LPopLoad(c)
    \/ \E c \in Conns : LRangeLoad(c)
    \/ \E c \in Conns : SAddLoad(c)
    \/ \E c \in Conns : SMembersLoad(c)
    \/ \E c \in Conns : SRemLoad(c)
    \/ \E c \in Conns : HSetLoad(c)
    \/ \E c \in Conns : HGetLoad(c)
    \/ \E c \in Conns : HDelLoad(c)
    \/ \E c \in Conns : LBTopBegin(c)

SpecArity == Init /\ [][NextArity]_vars

\* the recognized commands: the name, the name as the reply spells it, the
\* number of words, and whether the number is exact or the least
Arities ==
    {<<GET, "GET", 2, TRUE>>, <<TTL, "TTL", 2, TRUE>>,
     <<LPOP, "LPOP", 2, TRUE>>, <<LRANGE, "LRANGE", 4, TRUE>>,
     <<SMEMBERS, "SMEMBERS", 2, TRUE>>, <<HSET, "HSET", 4, TRUE>>,
     <<HGET, "HGET", 3, TRUE>>, <<LBADD, "LBADD", 3, TRUE>>,
     <<LBTOP, "LBTOP", 2, TRUE>>, <<SET, "SET", 3, FALSE>>,
     <<DEL, "DEL", 2, FALSE>>, <<LPUSH, "LPUSH", 3, FALSE>>,
     <<SADD, "SADD", 3, FALSE>>, <<SREM, "SREM", 3, FALSE>>,
     <<HDEL, "HDEL", 3, FALSE>>}

\* a request of len words for the command name violates the arity a
Violates(name, len, a) ==
    /\ name = a[1]
    /\ IF a[4] THEN len # a[3] ELSE len < a[3]

\* C22: a recognized command with a number of arguments that violates its
\* arity is answered by an arity error in one step, which leaves the Store
\* (an expired key too) and the Leaderboard as they are; the worker then
\* reads the next command.
C22_ArityRefused ==
    [][\A c \in Conns :
        (Steps(c) /\ ~At(c, "idle")) =>
            \A name \in {ToUpper(conn[c].req[1])} : \A a \in Arities :
                Violates(name, Len(conn[c].req), a)
                => /\ Replies(c, ErrReply("ERR wrong number of arguments for '"
                                          \o a[2] \o "' command"))
                   /\ cache' = cache
                   /\ heap' = heap
                   /\ leaderboard' = leaderboard
                   /\ conn'[c].pc = "idle"]_vars

\* k holds a String that has expired and dave has 7; the GET with two keys
\* was answered by the arity error and both are still there, and the SET of
\* the same connection before it was answered +OK
C22_Reached ==
    /\ Quiet
    /\ Len(out["c1"]) = 2
    /\ out["c1"][1].req = SetExpiring
    /\ out["c1"][1].rep = StatusOK
    /\ out["c1"][2].req = <<GET, KeyK, KeyJ>>
    /\ out["c1"][2].rep = ArityError("GET")
    /\ cache[KeyK].Type = StringType
    /\ ~LiveAt(KeyK)
    /\ Dave \in DOMAIN leaderboard

----------------------------------------------------------------------------
(* Names that are not commands.                                            *)

Ping == <<"P","I","N","G">>
MixedFoo == <<"F","o","o">>

UnknownMenu ==
    {<<Ping>>, <<MixedFoo, KeyK, ValA>>, <<<<>>>>, <<LowerSet, KeyK, ValA>>,
     <<GET, KeyK>>, <<LBADD, Dave, Score7>>, SetExpiring}

NextUnknown ==
    \/ Tick
    \/ \E c \in Conns : \E r \in UnknownMenu : Recv(c, r)
    \/ \E c \in Conns : DefaultCase(c)
    \/ \E c \in Conns : handleSet(c)
    \/ \E c \in Conns : handleGet(c)
    \/ \E c \in Conns : handleLBAdd(c)

SpecUnknown == Init /\ [][NextUnknown]_vars

\* the names the switch of handleConnection has a case for
Recognized ==
    {GET, SET, DEL, TTL, LPUSH, LPOP, SADD, SMEMBERS, SREM, HSET, HGET, HDEL,
     LBADD, LBTOP, LRANGE, QUIT}

\* C23: a command whose name in capitals is not a recognized one is
\* answered in one step by one error that carries the name as the client
\* sent it; the Store and the Leaderboard stay as they are, and the worker
\* reads the next command of the connection.
C23_UnknownNamed ==
    [][\A c \in Conns :
        (Steps(c) /\ ~At(c, "idle")) =>
            \A name \in {conn[c].req[1]} :
                ToUpper(name) \notin Recognized
                => /\ Len(out'[c]) = Len(out[c]) + 1
                   /\ out'[c][Len(out'[c])].rep.kind = "error"
                   /\ out'[c][Len(out'[c])].rep.s = name
                   /\ out'[c][Len(out'[c])].rep = UnknownCommand(name)
                   /\ cache' = cache
                   /\ heap' = heap
                   /\ leaderboard' = leaderboard
                   /\ conn'[c].pc = "idle"]_vars

\* Foo k a was answered by the error that names Foo; set k a and GET k
\* after it on the same connection were answered +OK and a
C23_Reached ==
    /\ Quiet
    /\ Len(out["c1"]) = 3
    /\ out["c1"][1].req = <<MixedFoo, KeyK, ValA>>
    /\ out["c1"][1].rep = UnknownCommand(MixedFoo)
    /\ out["c1"][2].req = <<LowerSet, KeyK, ValA>>
    /\ out["c1"][2].rep = StatusOK
    /\ out["c1"][3].req = <<GET, KeyK>>
    /\ out["c1"][3].rep = BulkReply(ValA)

----------------------------------------------------------------------------
(* What the clients put on the wire.                                       *)

\* a command as an array of bulk strings
RECURSIVE Bulks(_, _)
Bulks(args, i) ==
    IF i > Len(args) THEN <<>>
    ELSE <<"$">> \o Itoa(Len(args[i])) \o CRLF \o args[i] \o CRLF
         \o Bulks(args, i + 1)

Resp(args) == <<"*">> \o Itoa(Len(args)) \o CRLF \o Bulks(args, 1)

\* a command as a line of words
RECURSIVE Words(_, _)
Words(args, i) ==
    IF i > Len(args) THEN <<>>
    ELSE (IF i = 1 THEN <<>> ELSE <<" ">>) \o args[i] \o Words(args, i + 1)

Inline(args) == Words(args, 1) \o CRLF

----------------------------------------------------------------------------
(* QUIT.                                                                   *)

QuitMenu ==
    {Inline(<<QUIT>>), Resp(<<QUIT, KeyK>>), Resp(<<SET, KeyK, ValA>>),
     Inline(SetExpiring), Inline(<<GET, KeyK>>), Resp(<<LBADD, Dave, Score7>>)}

NextQuit ==
    \/ Tick
    \/ \E c \in Conns : \E bytes \in QuitMenu : Send(c, bytes, MaxCmds)
    \/ \E c \in Conns : Read(c)
    \/ \E c \in Conns : QuitCase(c)
    \/ \E c \in Conns : handleSet(c)
    \/ \E c \in Conns : handleGet(c)
    \/ \E c \in Conns : handleLBAdd(c)

SpecQuit == Init /\ [][NextQuit]_vars

\* C24: QUIT replies +OK and ends the worker of its connection, which from
\* then on takes no step and writes no reply, whatever the client had sent
\* behind the QUIT; the step of QUIT leaves the Store, the Leaderboard and
\* every other connection as they are.
C24_QuitEnds ==
    /\ [][\A c \in Conns :
            (Steps(c) /\ At(c, "quit"))
            => /\ Replies(c, StatusOK)
               /\ conn'[c].pc = "closed"
               /\ cache' = cache
               /\ heap' = heap
               /\ leaderboard' = leaderboard
               /\ sock' = sock
               /\ \A d \in Conns \ {c} : conn'[d] = conn[d] /\ out'[d] = out[d]]_vars
    /\ [][\A c \in Conns :
            At(c, "closed")
            => conn'[c] = conn[c] /\ out'[c] = out[c] /\ sock'[c] = sock[c]]_vars
    /\ [](\A c \in Conns :
            At(c, "closed")
            => /\ out[c] # <<>>
               /\ Cmd(out[c][Len(out[c])]) = QUIT
               /\ out[c][Len(out[c])].rep = StatusOK)

\* c1 sent QUIT and, behind it, SET k a before the worker read the QUIT:
\* the QUIT was answered, the SET is still unread and k is absent, which a
\* GET of c2 was then told
C24_Reached ==
    /\ At("c1", "closed")
    /\ Len(out["c1"]) = 1
    /\ out["c1"][1].rep = StatusOK
    /\ sock["c1"].buf = Resp(<<SET, KeyK, ValA>>)
    /\ cache[KeyK] = NoEntry
    /\ At("c2", "idle")
    /\ Len(out["c2"]) = 1
    /\ out["c2"][1].req = <<GET, KeyK>>
    /\ out["c2"][1].rep = NilBulk

----------------------------------------------------------------------------
(* Malformed frames.                                                       *)

\* a count that is no number, a bulk string without its $, a length that
\* is no number, a negative count and a negative length
BadCount == <<"*", "x">> \o CRLF
NoDollar == <<"*", "1">> \o CRLF \o <<"3">> \o CRLF \o GET \o CRLF
BadLength == <<"*", "1">> \o CRLF \o <<"$", "x">> \o CRLF
NegativeCount == <<"*", "-", "1">> \o CRLF
NegativeLength == <<"*", "1">> \o CRLF \o <<"$", "-", "5">> \o CRLF

BadFrames == {BadCount, NoDollar, BadLength, NegativeCount, NegativeLength}

FramesMenu ==
    BadFrames \cup {Resp(<<SET, KeyK, ValA>>), Inline(SetExpiring),
                    Inline(<<GET, KeyK>>), Resp(<<LBADD, Dave, Score7>>)}

NextFrames ==
    \/ Tick
    \/ \E c \in Conns : \E bytes \in FramesMenu : Send(c, bytes, MaxCmds)
    \/ \E c \in Conns : Read(c)
    \/ \E c \in Conns : handleSet(c)
    \/ \E c \in Conns : handleGet(c)
    \/ \E c \in Conns : handleLBAdd(c)

SpecFrames == Init /\ [][NextFrames]_vars

\* the unread bytes of c begin with frame
BeginsWith(c, frame) ==
    /\ Len(sock[c].buf) >= Len(frame)
    /\ SubSeq(sock[c].buf, 1, Len(frame)) = frame

\* the worker of c takes bytes off its connection in this step
Takes(c) == Len(sock'[c].buf) < Len(sock[c].buf)

\* C25: when the worker of a connection reads a frame with a malformed
\* count or length, that connection ends and gets no reply; the Store and
\* the Leaderboard stay as they are and the worker of every other
\* connection stays where it is, to go on.
C25_BadFrameEndsOne ==
    [][\A c \in Conns : \A frame \in BadFrames :
        (Takes(c) /\ BeginsWith(c, frame))
        => /\ conn'[c].pc \in {"closed", "down"}
           /\ out' = out
           /\ cache' = cache
           /\ leaderboard' = leaderboard
           /\ \A d \in Conns \ {c} : conn'[d] = conn[d]]_vars

----------------------------------------------------------------------------
(* Clients that go away.                                                   *)

\* bytes without their last n
Cut(bytes, n) == SubSeq(bytes, 1, Len(bytes) - n)

\* commands cut short: an array whose last bulk string lacks its CRLF, an
\* array of three with one bulk string, a line without its end
CutFrames ==
    {Cut(Resp(<<SET, KeyK, ValA>>), 2),
     Cut(Resp(<<SET, KeyK, ValA>>), 14),
     Cut(Inline(<<SET, KeyK, ValB>>), 2)}

GoneMenu ==
    {Resp(<<SET, KeyK, ValB>>), Inline(SetExpiring), Inline(<<GET, KeyK>>),
     Resp(<<LBADD, Dave, Score7>>)}

\* the client of c closes its end in the middle of a command, after bytes
Cutoff(c, bytes, limit) ==
    /\ ~sock[c].eof
    /\ conn[c].pc \notin {"closed", "down"}
    /\ issued < limit
    /\ issued' = issued + 1
    /\ sock' = [sock EXCEPT ![c] = [buf |-> @.buf \o bytes, eof |-> TRUE]]
    /\ http' = http
    /\ UNCHANGED <<cache, heap, now, conn, out, leaderboard>>

NextGone ==
    \/ Tick
    \/ \E c \in Conns : \E bytes \in GoneMenu : Send(c, bytes, MaxCmds)
    \/ \E c \in Conns : \E bytes \in CutFrames : Cutoff(c, bytes, MaxCmds)
    \/ \E c \in Conns : Hangup(c)
    \/ \E c \in Conns : Read(c)
    \/ \E c \in Conns : handleSet(c)
    \/ \E c \in Conns : handleGet(c)
    \/ \E c \in Conns : handleLBAdd(c)

SpecGone == Init /\ [][NextGone]_vars

\* the client of c has closed its end and what is unread is no command, or
\* the part of one
LeftShort(c) == sock[c].eof /\ sock[c].buf \in CutFrames \cup {<<>>}

\* C26: a client's closing its end changes nothing by itself, and the
\* worker that then finds no command, or a part of one, ends with no reply
\* and no effect: the Store, the Leaderboard and the other workers are as
\* they were.
C26_DisconnectEndsOne ==
    [][\A c \in Conns :
        /\ (sock'[c].eof /\ ~sock[c].eof)
           => UNCHANGED <<cache, heap, leaderboard, conn, out>>
        /\ ((Steps(c) \/ Takes(c)) /\ At(c, "idle") /\ LeftShort(c))
           => /\ conn'[c].pc = "closed"
              /\ UNCHANGED <<cache, heap, leaderboard, out>>
              /\ \A d \in Conns \ {c} : conn'[d] = conn[d]]_vars

\* c1 had SET k b answered, went away in the middle of a second command,
\* and its worker has ended; k still holds b
C26_Reached ==
    /\ conn["c1"].pc = "closed"
    /\ sock["c1"].eof
    /\ issued = 2
    /\ Len(out["c1"]) = 1
    /\ out["c1"][1].rep = StatusOK
    /\ cache[KeyK].Type = StringType
    /\ cache[KeyK].Str = ValB
    /\ out["c2"] = <<>>
    /\ sock["c2"] = [buf |-> <<>>, eof |-> FALSE]

----------------------------------------------------------------------------
(* Commands sent one behind the other.                                     *)

\* the frames the clients send, each with the command it holds
PipeFrames ==
    {[bytes |-> Resp(<<SET, KeyK, ValA>>), args |-> <<SET, KeyK, ValA>>],
     [bytes |-> Inline(SetExpiring), args |-> SetExpiring],
     [bytes |-> Inline(<<GET, KeyK>>), args |-> <<GET, KeyK>>],
     [bytes |-> Resp(<<GET, KeyK>>), args |-> <<GET, KeyK>>],
     [bytes |-> Inline(<<Ping>>), args |-> <<Ping>>],
     [bytes |-> CRLF, args |-> <<>>],
     [bytes |-> Resp(<<>>), args |-> <<>>]}

NextPipe ==
    \/ Tick
    \/ \E c \in Conns : \E f \in PipeFrames : Send(c, f.bytes, MaxCmds)
    \/ \E c \in Conns : Read(c)
    \/ \E c \in Conns : handleSet(c)
    \/ \E c \in Conns : handleGet(c)
    \/ \E c \in Conns : DefaultCase(c)

SpecPipe == Init /\ [][NextPipe]_vars

\* the commands of one word or more that the frames of buf hold, in order
RECURSIVE Commands(_)
Commands(buf) ==
    IF \E f \in PipeFrames : Len(buf) >= Len(f.bytes)
                             /\ SubSeq(buf, 1, Len(f.bytes)) = f.bytes
    THEN LET f == CHOOSE g \in PipeFrames :
                    /\ Len(buf) >= Len(g.bytes)
                    /\ SubSeq(buf, 1, Len(g.bytes)) = g.bytes
         IN  (IF f.args = <<>> THEN <<>> ELSE <<f.args>>)
             \o Commands(SubSeq(buf, Len(f.bytes) + 1, Len(buf)))
    ELSE <<>>

\* the commands c was sent so far: those answered, the one its worker is
\* at, and those still unread
Asked(c) ==
    [i \in 1..Len(out[c]) |-> out[c][i].req]
    \o (IF At(c, "idle") THEN <<>> ELSE <<conn[c].req>>)
    \o Commands(sock[c].buf)

\* C27: on each connection a reply is written only by the worker ending
\* the command it is at, one reply for that command, and no command is
\* taken off the connection before; the commands answered, the one being
\* run and those unread are, in this order, the commands sent, so the
\* replies come in the order of the commands; an empty line and an array
\* of no elements are taken off with no reply and the worker reads on.
C27_OneReplyInOrder ==
    [][\A c \in Conns :
        /\ out'[c] # out[c]
           => /\ ~At(c, "idle")
              /\ conn'[c].pc = "idle"
              /\ Len(out'[c]) = Len(out[c]) + 1
              /\ SubSeq(out'[c], 1, Len(out[c])) = out[c]
              /\ out'[c][Len(out'[c])].req = conn[c].req
        /\ (~At(c, "idle") /\ conn'[c].pc = "idle") => out'[c] # out[c]
        /\ Takes(c) => At(c, "idle") /\ out' = out
        /\ (Takes(c) /\ (BeginsWith(c, CRLF) \/ BeginsWith(c, Resp(<<>>))))
           => conn'[c] = conn[c]
        /\ (Steps(c) \/ Takes(c)) => Asked(c)' = Asked(c)]_vars

\* c1 was sent SET k a, GET k and a command of no words, all are read,
\* and it has two replies, in the order of the two commands
C27_Reached ==
    /\ issued = 3
    /\ At("c1", "idle")
    /\ sock["c1"].buf = <<>>
    /\ Len(out["c1"]) = 2
    /\ out["c1"][1].req = <<SET, KeyK, ValA>>
    /\ out["c1"][1].rep = StatusOK
    /\ out["c1"][2].req = <<GET, KeyK>>
    /\ out["c1"][2].rep = BulkReply(ValA)
    /\ out["c2"] = <<>>
    /\ sock["c2"].buf = <<>>

----------------------------------------------------------------------------
(* Lazy expiration.                                                        *)

LazyMenu ==
    {SetExpiring, <<SET, KeyJ, ValA>>, <<GET, KeyK>>, <<GET, KeyJ>>,
     <<DEL, KeyK>>, <<LPUSH, KeyK, ValB>>}

NextLazy ==
    \/ Tick
    \/ \E c \in Conns : \E r \in LazyMenu : Recv(c, r)
    \/ \E c \in Conns : handleSet(c)
    \/ \E c \in Conns : handleGet(c)
    \/ \E c \in Conns : handleDel(c)
    \/ \E c \in Conns : handleLPush(c)

SpecLazy == Init /\ [][NextLazy]_vars

\* what the store holds at key: the entry, with its list, set or hash
Holding(key) ==
    [entry |-> cache[key],
     cell |-> IF cache[key].Ref = 0 THEN FreeCell ELSE heap[cache[key].Ref]]

\* C28: what the store holds at a key changes only in a step of a worker
\* that runs a command listing that key; in particular the clock going on
\* removes nothing, and an entry that has expired stays where it is while
\* the commands are on other keys.
C28_OnlyCommandsOnKey ==
    [][\A key \in Keys :
        Holding(key)' # Holding(key)
        => \E c \in Conns : /\ Steps(c)
                            /\ ~At(c, "idle")
                            /\ key \in Listed(conn[c].req)]_vars

\* k holds an entry that expired more than a tick ago, and j was set and
\* read
C28_Reached ==
    /\ cache[KeyK] # NoEntry
    /\ isExpired(cache[KeyK], now - TickMs)
    /\ \A c \in Conns : At(c, "idle")
    /\ Len(out["c2"]) = 2
    /\ out["c2"][1].req = <<SET, KeyJ, ValA>>
    /\ out["c2"][2].req = <<GET, KeyJ>>
    /\ out["c2"][2].rep = BulkReply(ValA)

----------------------------------------------------------------------------
(* The kind of a live entry.                                               *)

\* C29: from one state of the store to the next, a key that holds a live
\* entry in both holds entries of one kind.
C29_KindFixedWhileLive ==
    [][\A key \in Keys :
        (LiveAt(key) /\ LiveAt(key)')
        => cache'[key].Type = cache[key].Type]_vars

----------------------------------------------------------------------------
(* The store and the leaderboard, side by side.                            *)

One == <<"1">>

\* the user of LBADD is named as the key k is
ApartMenu ==
    {<<SET, KeyK, ValA>>, SetExpiring, <<GET, KeyK>>, <<DEL, KeyK>>,
     <<LBADD, KeyK, Score7>>, <<LBTOP, One>>}

NextApart ==
    \/ Tick
    \/ \E c \in Conns : \E r \in ApartMenu : Recv(c, r)
    \/ \E c \in Conns : handleSet(c)
    \/ \E c \in Conns : handleGet(c)
    \/ \E c \in Conns : handleDel(c)
    \/ \E c \in Conns : handleLBAdd(c)
    \/ \E c \in Conns : handleLBTop(c)

SpecApart == Init /\ [][NextApart]_vars

\* the worker of c takes a step of a command of one of names
StepsOf(c, names) == Steps(c) /\ ~At(c, "idle") /\ Cmd(conn[c]) \in names

\* C30: a step of a command of the store leaves the leaderboard as it is,
\* a step of LBADD or LBTOP leaves what every key holds as it is, also
\* when the user is named as a key is; only a step of LBADD changes the
\* leaderboard, the clock going on does not, and no step takes a user off
\* it.
C30_StoreAndLeaderboardApart ==
    [][/\ \A c \in Conns :
            /\ StepsOf(c, {LBADD, LBTOP}) => Contents' = Contents
            /\ (Steps(c) /\ ~At(c, "idle") /\ Cmd(conn[c]) # LBADD)
               => leaderboard' = leaderboard
       /\ now' # now => leaderboard' = leaderboard
       /\ DOMAIN leaderboard \subseteq DOMAIN leaderboard']_vars

\* the key k holds the String a and the user k has the score 7, after
\* SET k a, LBADD k 7 and GET k were answered
C30_Reached ==
    /\ cache[KeyK].Type = StringType
    /\ cache[KeyK].Str = ValA
    /\ KeyK \in DOMAIN leaderboard
    /\ leaderboard[KeyK] = 7
    /\ \A c \in Conns : At(c, "idle")
    /\ \E c \in Conns :
          /\ Len(out[c]) = 2
          /\ out[c][1].req = <<LBADD, KeyK, Score7>>
          /\ out[c][2].req = <<GET, KeyK>>
          /\ out[c][2].rep = BulkReply(ValA)

----------------------------------------------------------------------------
(* The page of the leaderboard.                                            *)

\* pages asked for in all
MaxPages == 2

SnapMenu ==
    {<<LBADD, Dave, Score7>>, <<LBADD, Eve, Score7>>,
     <<LBADD, Eve, Score999999>>, <<LBADD, Dave, Score10000>>}

NextSnap ==
    \/ \E c \in Conns : \E r \in SnapMenu : Recv(c, r)
    \/ \E c \in Conns : handleLBAdd(c)
    \/ leaderboardSnapshotHandler(MaxPages)

SpecSnap == Init /\ [][NextSnap]_vars

\* the scores of page never go up and no user has two rows
RankedOnce(page) ==
    \A i, j \in 1..Len(page) :
        i < j => page[i].Score >= page[j].Score /\ page[i].User # page[j].User

\* C31: no step of the handler of /leaderboard changes the Leaderboard or
\* the Store, whatever LBADD the connections run meanwhile, and the rows of
\* each page it writes are in an order of scores that never go up, with
\* each user in one row at most.
C31_SnapshotRanksAndKeeps ==
    [][http' # http
       => /\ UNCHANGED <<leaderboard, cache, heap, conn, out>>
          /\ \A i \in 1..Len(http'.pages) : RankedOnce(http'.pages[i])]_vars

\* a page of two rows, written after Dave was raised above the score that
\* Range had found for him
C31_Reached ==
    /\ Len(http.pages) = 1
    /\ http.pages[1] = <<[User |-> Eve, Score |-> 10000],
                         [User |-> Dave, Score |-> 7]>>
    /\ leaderboard[Dave] = 10000
    /\ issued = 3

----------------------------------------------------------------------------
(* The connection loop of part_002.                                        *)

Zero == <<"0">>

Loop002Menu ==
    {Inline(<<QUIT>>), Resp(<<SET, KeyK, ValA>>), Inline(SetExpiring),
     Inline(<<GET, KeyK>>), Resp(<<LBADD, Dave, Score7>>),
     Inline(<<LBTOP, One>>), Inline(<<LBTOP, Zero>>)}

NextLoop002 ==
    \/ Tick
    \/ \E c \in Conns : \E bytes \in Loop002Menu : Send(c, bytes, MaxCmds)
    \/ \E c \in Conns : Read(c)
    \/ \E c \in Conns : handleSet(c)
    \/ \E c \in Conns : handleGet(c)
    \/ \E c \in Conns : QuitCase002(c)
    \/ \E c \in Conns : handleLBAdd002(c)
    \/ \E c \in Conns : handleLBTop002(c)

SpecLoop002 == Init /\ [][NextLoop002]_vars

\* C32: the worker of a connection that writes a reply goes back to read
\* the next command, unless the command is QUIT, and then it ends.
C32_LoopEndsOnQuitOnly ==
    [][\A c \in Conns :
        (out'[c] # out[c])
        => \A name \in {Cmd(conn[c])} :
              IF name = QUIT THEN conn'[c].pc = "closed"
              ELSE conn'[c].pc = "idle"]_vars

----------------------------------------------------------------------------
(* HSET and HDEL of two clients on one key.                                *)

\* the fields are f and a
HashRaceMenu ==
    {<<HSET, KeyK, FieldF, ValA>>, <<HSET, KeyK, ValA, ValB>>,
     <<HDEL, KeyK, ValA, ValB>>, SetExpiring}

NextHashRace ==
    \/ Tick
    \/ \E c \in Conns : \E r \in HashRaceMenu : Recv(c, r)
    \/ \E c \in Conns : handleSet(c)
    \/ \E c \in Conns : handleHSet(c)
    \/ \E c \in Conns : handleHDel(c)

SpecHashRace == Init /\ [][NextHashRace]_vars

\* the hash a key holds
HashAt(key) ==
    IF cache[key].Type = HashType THEN heap[cache[key].Ref].hash ELSE <<>>

\* C33: when HSET commands on one key, each with a field of its own, have
\* all been answered, the hash at the key has every field they wrote, with
\* its value.
C33_BothFieldsKept ==
    OnlyRan({HSET}) =>
        \A s \in Slots :
            /\ Rec(s).req[3] \in DOMAIN HashAt(KeyK)
            /\ HashAt(KeyK)[Rec(s).req[3]] = Rec(s).req[4]

----------------------------------------------------------------------------
(* Values that are no integers.                                            *)

NoNumber == <<"1", "x">>
LowerPx == <<"p", "x">>

ValueMenu ==
    {<<LPUSH, KeyK, ValA>>, SetExpiring, <<SET, KeyK, ValB, EX, NoNumber>>,
     <<SET, KeyK, ValB, LowerPx, <<>>>>, <<LRANGE, KeyK, NoNumber, One>>,
     <<LRANGE, KeyK, Zero, NoNumber>>, <<LRANGE, KeyK, Zero, One>>}

NextValue ==
    \/ Tick
    \/ \E c \in Conns : \E r \in ValueMenu : Recv(c, r)
    \/ \E c \in Conns : handleSet(c)
    \/ \E c \in Conns : handleLPush(c)
    \/ \E c \in Conns : handleLRange(c)

SpecValue == Init /\ [][NextValue]_vars

\* C34: SET with an EX or PX value that is no integer, and LRANGE with a
\* start or a stop that is no integer, reply their error in one step that
\* leaves what every key holds as it is, and the worker of the connection
\* reads the next command.
C34_BadValuesRefused ==
    [][\A c \in Conns :
        /\ (Steps(c) /\ At(c, "set") /\ Len(conn[c].req) >= 5)
           => \A opt \in {ToUpper(conn[c].req[4])} :
                 (opt \in {EX, PX} /\ ~IsInteger(conn[c].req[5]))
                 => /\ Replies(c, InvalidExpiration(IF opt = EX THEN "EX"
                                                    ELSE "PX"))
                    /\ Contents' = Contents
                    /\ conn'[c].pc = "idle"
        /\ (/\ Steps(c)
            /\ At(c, "lrange")
            /\ Len(conn[c].req) = 4
            /\ ~IsInteger(conn[c].req[3]) \/ ~IsInteger(conn[c].req[4]))
           => /\ Replies(c, NotAnInteger)
              /\ Contents' = Contents
              /\ conn'[c].pc = "idle"]_vars

\* k holds the list of LPUSH k a after SET k b px with no value and
\* LRANGE k 0 1x were both refused on the same connection
C34_Reached ==
    /\ Quiet
    /\ Len(out["c1"]) = 3
    /\ out["c1"][1].req = <<LPUSH, KeyK, ValA>>
    /\ out["c1"][2].req = <<SET, KeyK, ValB, LowerPx, <<>>>>
    /\ out["c1"][2].rep = InvalidExpiration("PX")
    /\ out["c1"][3].req = <<LRANGE, KeyK, Zero, NoNumber>>
    /\ out["c1"][3].rep = NotAnInteger
    /\ ListAt(KeyK) = <<ValA>>

----------------------------------------------------------------------------
(* Inline commands.                                                        *)

Quote == <<"\"">>
Space == <<" ">>

\* lines, each with the words it holds: the spaces outside the quotes part
\* them, and the quotes are left out
InlineLines ==
    {[bytes |-> SET \o Space \o KeyK \o Space \o Quote \o ValA \o Space
                    \o ValB \o Quote \o CRLF,
      args |-> <<SET, KeyK, ValA \o Space \o ValB>>],
     [bytes |-> SET \o Space \o Space \o KeyK \o Space \o ValA \o Quote
                    \o ValB \o Quote \o Space \o CRLF,
      args |-> <<SET, KeyK, ValA \o ValB>>],
     [bytes |-> GET \o Space \o KeyK \o Space \o Quote \o Quote \o CRLF,
      args |-> <<GET, KeyK>>],
     [bytes |-> Inline(SetExpiring), args |-> SetExpiring],
     [bytes |-> SET \o Space \o KeyK \o Space \o <<ByteFF>> \o CRLF,
      args |-> <<SET, KeyK, <<ByteFF>>>>]}

NextInline ==
    \/ Tick
    \/ \E c \in Conns : \E f \in InlineLines : Send(c, f.bytes, MaxCmds)
    \/ \E c \in Conns : \E f \in InlineLines : Send(c, Resp(f.args), MaxCmds)
    \/ \E c \in Conns : Read(c)
    \/ \E c \in Conns : handleSet(c)
    \/ \E c \in Conns : handleGet(c)

SpecInline == Init /\ [][NextInline]_vars

\* C35: the worker that takes a line off its connection goes to the
\* handler of the first of the words of the line, with the words of the
\* line as its arguments, as it does for the array that carries those
\* words.
C35_InlineWords ==
    [][\A c \in Conns : \A f \in InlineLines :
        (Takes(c) /\ (BeginsWith(c, f.bytes) \/ BeginsWith(c, Resp(f.args))))
        => /\ conn'[c].req = f.args
           /\ conn'[c].pc = HandlerOf(ToUpper(f.args[1]))]_vars

----------------------------------------------------------------------------
(* What a lazy delete removes.                                             *)

\* C36: a step of GET or TTL that changes what its key holds removes an
\* entry that has expired, never one that is live.
C36_LazyDeleteOfExpiredOnly ==
    [][\A c \in Conns :
        (Steps(c) /\ ~At(c, "idle"))
        => \A name \in {Cmd(conn[c])} :
              (name \in {GET, TTL} /\ cache'[KeyOf(c)] # cache[KeyOf(c)])
              => Lapsed(cache[KeyOf(c)])]_vars

----------------------------------------------------------------------------
(* The arrays written.                                                     *)

\* C37: the count in the header of every array written is the number of
\* bulk strings that follow it.
C37_ArrayCountsItems ==
    \A s \in Slots :
        Rec(s).rep.kind = "array" => Rec(s).rep.n = Len(Rec(s).rep.items)

----------------------------------------------------------------------------
(* TTL of lists, sets and hashes.                                          *)

TtlKindsMenu ==
    {SetExpiring, <<LPUSH, KeyK, ValA>>, <<SADD, KeyK, ValA>>,
     <<SADD, KeyK, ValA, ValB>>, <<HSET, KeyK, FieldF, ValA>>, <<TTL, KeyK>>}

NextTtlKinds ==
    \/ Tick
    \/ \E c \in Conns : \E r \in TtlKindsMenu : Recv(c, r)
    \/ \E c \in Conns : handleSet(c)
    \/ \E c \in Conns : handleLPush(c)
    \/ \E c \in Conns : handleSAdd(c)
    \/ \E c \in Conns : handleHSet(c)
    \/ \E c \in Conns : handleTTL(c)

SpecTtlKinds == Init /\ [][NextTtlKinds]_vars

Containers == {ListType, SetType, HashType}

\* C38: no List, Set or Hash in the store carries an expiration, at any
\* time, so that none is ever expired; and the TTL that has found one
\* replies -1.
C38_ContainersNeverExpire ==
    /\ [](\A key \in Keys :
            cache[key].Type \in Containers
            => cache[key].ExpireAt = 0 /\ ~Lapsed(cache[key]))
    /\ [][\A c \in Conns :
            (Steps(c) /\ At(c, "ttl_check") /\ conn[c].ent.Type \in Containers)
            => Replies(c, IntReply(-1))]_vars

\* TTL k found the Hash of HSET k f a, after three ticks of the clock, and
\* replied -1
C38_Reached ==
    /\ now = MaxTicks * TickMs
    /\ Len(out["c1"]) = 2
    /\ out["c1"][1].req = <<HSET, KeyK, FieldF, ValA>>
    /\ out["c1"][2].req = <<TTL, KeyK>>
    /\ out["c1"][2].saw.Type = HashType
    /\ out["c1"][2].rep = IntReply(-1)
    /\ cache[KeyK].Type = HashType

----------------------------------------------------------------------------
(* Expirations whose nanoseconds pass 64 bits.                             *)

\* 9223372037 s are more than 2^63 - 1 ns
EXWraps == <<"9","2","2","3","3","7","2","0","3","7">>

WrapMenu ==
    {<<SET, KeyK, ValA, EX, EXWraps>>, <<SET, KeyK, ValA, EX, EX1>>,
     SetExpiring, <<GET, KeyK>>, <<TTL, KeyK>>}

NextWrap ==
    \/ Tick
    \/ \E c \in Conns : \E r \in WrapMenu : Recv(c, r)
    \/ \E c \in Conns : handleSet(c)
    \/ \E c \in Conns : handleGet(c)
    \/ \E c \in Conns : handleTTL(c)

SpecWrap == Init /\ [][NextWrap]_vars

\* C39: the store of a SET whose EX or PX value is an integer above zero
\* leaves at the key an entry with an expiration, which for a value n of
\* five digits at most is n seconds, or milliseconds, after a clock
\* reading taken during the SET.
C39_PositiveExpiryKept ==
    [][\A c \in Conns :
         (/\ Steps(c) /\ At(c, "set_store")
          /\ Len(conn[c].req) = 5
          /\ FitsInt(conn[c].req[5])
          /\ ~NotPositive(conn[c].req[5]))
         => \A opt \in {ToUpper(conn[c].req[4])} :
              opt \in {EX, PX}
              => /\ cache'[KeyOf(c)].ExpireAt # 0
                 /\ Len(conn[c].req[5]) <= 5
                    => cache'[KeyOf(c)].ExpireAt
                         - DecimalValue(conn[c].req[5], Len(conn[c].req[5]))
                           * (IF opt = EX THEN 1000 ELSE 1)
                       \in 0..now]_vars

----------------------------------------------------------------------------
(* What the commands that read may change.                                 *)

\* what the keys hold once the entry at key is removed
ContentsWithout(key) ==
    [Contents EXCEPT ![key] = [entry |-> NoEntry, cell |-> FreeCell]]

\* C40: a step of GET, TTL, LRANGE, SMEMBERS, HGET or LBTOP leaves the
\* Leaderboard as it is, and it leaves what every key holds as it is but
\* where it removes, from the key the command names, an entry that has
\* expired; a step of any command leaves what the keys it does not name
\* hold as it is.
C40_ReadsKeepLiveData ==
    [][\A c \in Conns :
        (Steps(c) /\ ~At(c, "idle"))
        => \A name \in {Cmd(conn[c])} :
            /\ name \in {GET, TTL, LRANGE, SMEMBERS, HGET, LBTOP}
               => /\ leaderboard' = leaderboard
                  /\ \/ Contents' = Contents
                     \/ /\ name # LBTOP
                        /\ Lapsed(cache[KeyOf(c)])
                        /\ Contents' = ContentsWithout(KeyOf(c))
            /\ \A key \in Keys \ Listed(conn[c].req) :
                  Contents'[key] = Contents[key]]_vars

====
